---- MODULE Spec2Model ----
(***************************************************************************)
(* A model of gyre's EngineManager (src/gyre/manager.py): the device pool  *)
(* and per-identity pipeline pools behind with_engine, the PipelineWrapper *)
(* activate/deactivate protocol, and the weight-path candidate list.       *)
(***************************************************************************)
EXTENDS Integers, Sequences, FiniteSets, TLC

\* ---------------------------------------------------------------- bounds
NumDevices == 2
NumCallers == 2
MaxBuilt == 4
MaxDepth == 6
MaxLoads == 2
NumThreads == 2

Slots == 1..NumDevices
Callers == 1..NumCallers
Threads == 1..NumThreads

\* Python's None, for identifiers and references
NoneId == "None"

\* ------------------------------------------------------- configuration
\* The EngineSpec list handed to EngineManager.__init__ (self.engines).
\* id / model_id are NoneId when the key is absent from the record.
engines ==
  << [id |-> "e1", model_id |-> NoneId, enabled |-> TRUE, task |-> "generate",
      default |-> TRUE, modules |-> {"unet", "vae"}],
     [id |-> "e2", model_id |-> NoneId, enabled |-> TRUE, task |-> "depth",
      default |-> FALSE, modules |-> {}],
     [id |-> "ex", model_id |-> NoneId, enabled |-> FALSE, task |-> "generate",
      default |-> FALSE, modules |-> {"unet"}],
     [id |-> NoneId, model_id |-> "m1", enabled |-> TRUE, task |-> NoneId,
      default |-> FALSE, modules |-> {}] >>

is_engine(spec) == spec.id # NoneId

is_model(spec) == spec.model_id # NoneId

\* The id arguments callers pass to with_engine (NoneId: no id given)
RequestIds == {"e1", "e2", "e*", "ex", "zz", NoneId}

\* The task arguments callers pass to with_engine (NoneId: no task given)
RequestTasks == {NoneId, "generate", "depth"}

\* Every string used as a key of _available_pipelines
PoolKeys == {"e1", "e2", "e*", "ex", "zz"}

\* The model fields (hub ids) of the descriptors whose weights are resolved
ModelPaths == {"r1", "s1"}

\* The patterns that occur in refresh_models
RefreshPatterns == {"r*", "q?"}

\* The characters of each string, for glob matching
Chars == [k \in PoolKeys \cup ModelPaths \cup RefreshPatterns |->
            CASE k = "e1" -> <<"e", "1">>
              [] k = "e2" -> <<"e", "2">>
              [] k = "e*" -> <<"e", "*">>
              [] k = "ex" -> <<"e", "x">>
              [] k = "zz" -> <<"z", "z">>
              [] k = "r1" -> <<"r", "1">>
              [] k = "s1" -> <<"s", "1">>
              [] k = "r*" -> <<"r", "*">>
              [] k = "q?" -> <<"q", "?">>]

\* fnmatch(name, pattern) on character sequences: * matches any run, ? one
RECURSIVE Glob(_, _)
Glob(s, p) ==
  IF p = <<>> THEN s = <<>>
  ELSE IF Head(p) = "*"
       THEN Glob(s, Tail(p)) \/ (s # <<>> /\ Glob(Tail(s), p))
  ELSE IF s = <<>> THEN FALSE
  ELSE (Head(p) = "?" \/ Head(p) = Head(s)) /\ Glob(Tail(s), Tail(p))

fnmatch(name, pattern) == Glob(Chars[name], Chars[pattern])

\* _find_spec(id=id): index of the first spec that has an id matching the
\* pattern, 0 (None) if there is none
_find_spec(id) ==
  LET hits == {i \in 1..Len(engines) :
                 is_engine(engines[i]) /\ fnmatch(engines[i].id, id)}
  IN IF hits = {} THEN 0
     ELSE CHOOSE i \in hits : \A j \in hits : i <= j

\* ------------------------------------------------------ PipelineWrapper
\* A reference held in a pipeline attribute: a host module, its device
\* clone, None, or a non-module object (k = "other", e.g. the scheduler).
NoRef == [k |-> "None", w |-> 0, n |-> "", dev |-> 0]

HostRef(w, name) == [k |-> "host", w |-> w, n |-> name, dev |-> 0]

OtherRef(w, name) == [k |-> "other", w |-> w, n |-> name, dev |-> 0]

\* isinstance(module, torch.nn.Module)
IsModule(ref) == ref.k \in {"host", "clone"}

\* clone_model(module, device): a device-resident clone of the reference
clone_model(ref, device) == [ref EXCEPT !.k = "clone", !.dev = device]

\* PipelineWrapper.pipeline_modules: the attribute names holding a module
pipeline_modules(attrs) == {n \in DOMAIN attrs : IsModule(attrs[n])}

\* self._previous: None, or the dict of saved references
NonePrevious == [isNone |-> TRUE, saved |-> [n \in {} |-> NoRef]]

\* dict.get(name) on the saved references
SavedGet(saved, name) == IF name \in DOMAIN saved THEN saved[name] ELSE NoRef

\* activate testing the snapshot for truth (if self._previous:) instead of
\* for None: an empty snapshot passes as no snapshot
activate_Truthy(previous, attrs, device) ==
  IF ~previous.isNone /\ DOMAIN previous.saved # {}
  THEN [raised |-> TRUE, previous |-> previous, attrs |-> attrs]
  ELSE [raised |-> FALSE,
        previous |-> [isNone |-> FALSE,
                      saved |-> [n \in pipeline_modules(attrs) |-> attrs[n]]],
        attrs |-> [n \in DOMAIN attrs |->
                     IF n \in pipeline_modules(attrs)
                     THEN clone_model(attrs[n], device) ELSE attrs[n]]]

\* activate installing the clones without recording the snapshot
activate_NoSnapshot(previous, attrs, device) ==
  IF ~previous.isNone
  THEN [raised |-> TRUE, previous |-> previous, attrs |-> attrs]
  ELSE [raised |-> FALSE,
        previous |-> previous,
        attrs |-> [n \in DOMAIN attrs |->
                     IF n \in pipeline_modules(attrs)
                     THEN clone_model(attrs[n], device) ELSE attrs[n]]]

\* PipelineWrapper.activate(device) on a wrapper (previous, attrs):
\* the outcome and the wrapper's new fields
activate(previous, attrs, device) ==
  IF ~previous.isNone
  THEN [raised |-> TRUE, previous |-> previous, attrs |-> attrs]
  ELSE [raised |-> FALSE,
        previous |-> [isNone |-> FALSE,
                      saved |-> [n \in pipeline_modules(attrs) |-> attrs[n]]],
        attrs |-> [n \in DOMAIN attrs |->
                     IF n \in pipeline_modules(attrs)
                     THEN clone_model(attrs[n], device) ELSE attrs[n]]]

\* deactivate dropping the snapshot without restoring the modules
deactivate_NoRestore(previous, attrs) ==
  IF previous.isNone
  THEN [raised |-> TRUE, previous |-> previous, attrs |-> attrs]
  ELSE [raised |-> FALSE, previous |-> NonePrevious, attrs |-> attrs]

\* deactivate restoring the modules but keeping the snapshot
deactivate_KeepsSnapshot(previous, attrs) ==
  IF previous.isNone
  THEN [raised |-> TRUE, previous |-> previous, attrs |-> attrs]
  ELSE [raised |-> FALSE,
        previous |-> previous,
        attrs |-> [n \in DOMAIN attrs |->
                     IF n \in pipeline_modules(attrs)
                     THEN SavedGet(previous.saved, n) ELSE attrs[n]]]

\* PipelineWrapper.deactivate()
deactivate(previous, attrs) ==
  IF previous.isNone
  THEN [raised |-> TRUE, previous |-> previous, attrs |-> attrs]
  ELSE [raised |-> FALSE,
        previous |-> NonePrevious,
        attrs |-> [n \in DOMAIN attrs |->
                     IF n \in pipeline_modules(attrs)
                     THEN SavedGet(previous.saved, n) ELSE attrs[n]]]

\* The attributes of the pipeline _instantiate_pipeline builds for an engine:
\* one host module per component of the engine's ModelSet, plus the scheduler
NewPipelineAttrs(w, spec) ==
  [n \in spec.modules \cup {"scheduler"} |->
     IF n \in spec.modules THEN HostRef(w, n) ELSE OtherRef(w, n)]

\* ----------------------------------------------------------- EngineMode
\* EngineMode.fp16 of a mode [device, vramO]
mode_fp16(mode) == mode.device = "cuda" /\ mode.vramO > 1

\* ------------------------------------------------------- WeightResolver
\* One candidate of _get_weight_path_candidates: the source function and the
\* keyword arguments it is called with (FALSE where it has no such argument)
Candidate(fn, local_only, fp16) ==
  [fn |-> fn, local_only |-> local_only, fp16 |-> fp16]

\* matches_refresh of _get_weight_path_candidates (lines 945-956)
matches_refresh(refresh_models, model_path) ==
  /\ refresh_models # <<>>
  /\ model_path # NoneId
  /\ \E i \in DOMAIN refresh_models : fnmatch(model_path, refresh_models[i])

\* A list holding x if cond holds, the empty list otherwise
When(cond, x) == IF cond THEN x ELSE <<>>

\* _get_weight_path_candidates with the remote fetch of step 6 not guarded
_get_weight_path_candidates_Unguarded(in) ==
  LET refresh == matches_refresh(in.refresh_models, in.model)
      fp16mode == mode_fp16(in.mode)
  IN When(refresh, << Candidate("_get_hf_path", FALSE, FALSE),
                      Candidate("_get_url_path", FALSE, FALSE) >>)
     \o When(fp16mode /\ in.fp16 # "never",
             << Candidate("_get_local_path", FALSE, TRUE) >>)
     \o When(~(fp16mode /\ in.fp16 = "only"),
             << Candidate("_get_local_path", FALSE, FALSE) >>)
     \o << Candidate("_get_hf_path", TRUE, FALSE),
           Candidate("_get_url_path", TRUE, FALSE) >>
     \o << Candidate("_get_hf_path", FALSE, FALSE),
           Candidate("_get_url_path", FALSE, FALSE) >>
     \o When(in.refresh_on_error,
             << Candidate("_get_hf_forced_path", FALSE, FALSE) >>)

\* _get_weight_path_candidates trying the remote fetches first whether or not
\* the model matches a refresh pattern
_get_weight_path_candidates_FetchFirst(in) ==
  LET fp16mode == mode_fp16(in.mode)
  IN << Candidate("_get_hf_path", FALSE, FALSE),
        Candidate("_get_url_path", FALSE, FALSE) >>
     \o When(fp16mode /\ in.fp16 # "never",
             << Candidate("_get_local_path", FALSE, TRUE) >>)
     \o When(~(fp16mode /\ in.fp16 = "only"),
             << Candidate("_get_local_path", FALSE, FALSE) >>)
     \o << Candidate("_get_hf_path", TRUE, FALSE),
           Candidate("_get_url_path", TRUE, FALSE) >>
     \o When(in.refresh_on_error,
             << Candidate("_get_hf_forced_path", FALSE, FALSE) >>)

\* _get_weight_path_candidates(spec) for the inputs in: the manager's
\* refresh_models, refresh_on_error and mode, the spec's model and fp16
_get_weight_path_candidates(in) ==
  LET refresh == matches_refresh(in.refresh_models, in.model)
      fp16mode == mode_fp16(in.mode)
  IN When(refresh, << Candidate("_get_hf_path", FALSE, FALSE),
                      Candidate("_get_url_path", FALSE, FALSE) >>)
     \o When(fp16mode /\ in.fp16 # "never",
             << Candidate("_get_local_path", FALSE, TRUE) >>)
     \o When(~(fp16mode /\ in.fp16 = "only"),
             << Candidate("_get_local_path", FALSE, FALSE) >>)
     \o << Candidate("_get_hf_path", TRUE, FALSE),
           Candidate("_get_url_path", TRUE, FALSE) >>
     \o When(~refresh, << Candidate("_get_hf_path", FALSE, FALSE),
                          Candidate("_get_url_path", FALSE, FALSE) >>)
     \o When(in.refresh_on_error,
             << Candidate("_get_hf_forced_path", FALSE, FALSE) >>)

\* ----------------------------------------------------------------- state
VARIABLES
  device_queue,         \* self._device_queue: FIFO of free DeviceQueueSlots
  slot_pipeline,        \* DeviceQueueSlot.pipeline per slot (0: None)
  available_pipelines,  \* self._available_pipelines: id -> FIFO of wrappers
  engine_models,        \* keys of self._engine_models (the loaded engines)
  defaults,             \* self._defaults: task -> engine id
  load_pos,             \* loadPipelines: index of the next engine (0: aborted)
  wid,                  \* PipelineWrapper._id of every wrapper built so far
  wprev,                \* PipelineWrapper._previous of every wrapper
  wattrs,               \* the module attributes of every wrapper's pipeline
  pc,                   \* where each caller is in with_engine
  cid,                  \* with_engine's id after the default was filled in
  cspec,                \* with_engine's spec (index into engines, 0: none)
  cslot,                \* with_engine's slot (0: none)
  cpipe,                \* the wrapper with_engine yielded (0: none)
  cexisting,            \* with_engine's existing ("None": not assigned)
  exc,                  \* the exception the step just taken raised to its caller
  rin,                  \* weight resolution: the manager and spec fields read
  rstage,               \* weight resolution: how far it has got
  rcands,               \* weight resolution: the candidate list
  lspec,                \* _load_from_weight_candidates: the spec's id / model_id
  lidx,                 \* index of the candidate the loop is at (0: no loop)
  failures,             \* the failures list of _load_from_weight_candidates
  linvoked,             \* the candidates invoked so far and what each did
  lout,                 \* how _load_from_weight_candidates ended
  heap,                 \* the ModelSet objects alive, by object identity
  models,               \* self._models: model_id -> the cached model
  stack,                \* each thread's stack of _load_model frames
  tret,                 \* the value the frame a thread just left returned
  tres,                 \* each thread's outermost _load_model call
  nloaded,              \* per model_id: the stores of line 1428 so far
  nweights,             \* per model_id: the loads from weights so far
  fargs,                \* the function called on its own and its arguments
  flocals,              \* that function's locals, position and result
  disk,                 \* the URL cache on disk: directories, files, temp files
  ucalls,               \* each thread's call of _get_url_path
  wcall,                \* the last direct call on a wrapper: activate / deactivate
  wbefore               \* attributes just before the last direct activate

vars == << device_queue, slot_pipeline, available_pipelines, engine_models,
           defaults, load_pos, wid, wprev, wattrs, pc, cid, cspec, cslot,
           cpipe, cexisting, exc, rin, rstage, rcands, lspec, lidx, failures,
           linvoked, lout, heap, models, stack, tret, tres, nloaded, nweights,
           fargs, flocals, disk, ucalls, wcall, wbefore >>

resolveVars == << rin, rstage, rcands >>

loaderVars == << lspec, lidx, failures, linvoked, lout >>

refVars == << heap, models, stack, tret, tres, nloaded, nweights >>

fnVars == << fargs, flocals >>

urlVars == << disk, ucalls >>

directVars == << wcall, wbefore >>

poolVars == << device_queue, slot_pipeline, available_pipelines >>

loadVars == << engine_models, defaults, load_pos >>

wrapperVars == << wid, wprev, wattrs >>

localVars == << cid, cspec, cslot, cpipe, cexisting >>

\* No exception: the step just taken returned (or is still running)
NoExc == [caller |-> 0, type |-> NoneId]

\* A wrapper is Active when it holds a saved snapshot
Active(w) == ~wprev[w].isNone

\* loadPipelines skips disabled specs and specs that are no engines: the
\* first index from pos on that it loads (Len(engines) + 1: the loop is over)
NextToLoad(pos) ==
  LET todo == {i \in pos..Len(engines) :
                 engines[i].enabled /\ is_engine(engines[i])}
  IN IF todo = {} THEN Len(engines) + 1
     ELSE CHOOSE i \in todo : \A j \in todo : i <= j

\* No weight resolution is going on
NoResolveInput ==
  [refresh_models |-> <<>>, refresh_on_error |-> FALSE,
   mode |-> [device |-> "cpu", vramO |-> 0], model |-> NoneId,
   fp16 |-> "auto"]

\* EngineManager.__init__: one DeviceQueueSlot per device, all in the queue,
\* nothing loaded, and no caller in with_engine
ManagerInit ==
  /\ device_queue = [i \in 1..NumDevices |-> i]
  /\ slot_pipeline = [s \in Slots |-> 0]
  /\ available_pipelines = [k \in PoolKeys |-> <<>>]
  /\ engine_models = {}
  /\ defaults = [t \in {} |-> NoneId]
  /\ load_pos = NextToLoad(1)
  /\ pc = [c \in Callers |-> "idle"]
  /\ cid = [c \in Callers |-> NoneId]
  /\ cspec = [c \in Callers |-> 0]
  /\ cslot = [c \in Callers |-> 0]
  /\ cpipe = [c \in Callers |-> 0]
  /\ cexisting = [c \in Callers |-> NoneId]
  /\ exc = NoExc

\* No wrapper was built yet
NoWrappers ==
  /\ wid = <<>>
  /\ wprev = <<>>
  /\ wattrs = <<>>

\* No wrapper method was called directly
NoDirectCall ==
  /\ wcall = [op |-> "none", device |-> 0]
  /\ wbefore = [n \in {} |-> NoRef]

\* No weight resolution was started
NoResolution ==
  /\ rin = NoResolveInput
  /\ rstage = "none"
  /\ rcands = <<>>

\* ---------------------------------------------------------------------------
\* Models, ModelSet and model references
\* ---------------------------------------------------------------------------

\* A reference "@model_id[/submodel]" in a spec's model field, with the
\* whitelist and blacklist of the spec that carries it
Ref(mid, sub, wl, bl) ==
  [mid |-> mid, sub |-> sub, whitelist |-> wl, blacklist |-> bl]

NoReference == Ref(NoneId, NoneId, {}, {})

\* EngineSpec({"model": "@..."}): the spec built for an override (line 1465)
\* or for a mix input (line 1202)
EngineSpec(ref) ==
  [model_id |-> NoneId, enabled |-> TRUE, kind |-> "ref", ref |-> ref,
   inputs |-> <<>>, overrides |-> <<>>]

\* The model specs of the configuration (the entries of self.engines with a
\* model_id): loaded from weights, a reference with overrides (one that
\* yields a component, one that yields a ModelSet), a reference to a
\* component, a mix, references that close a cycle through the model field, through an
\* override and through a mix input, and a disabled entry
model_engines ==
  << [model_id |-> "m1", enabled |-> TRUE, kind |-> "weights",
      ref |-> NoReference, inputs |-> <<>>, overrides |-> <<>>],
     [model_id |-> "m2", enabled |-> TRUE, kind |-> "ref",
      ref |-> Ref("m1", NoneId, {}, {}), inputs |-> <<>>,
      overrides |-> << [name |-> "vae", ref |-> Ref("m3", "vae", {}, {})],
                       [name |-> "unet",
                        ref |-> Ref("m3", NoneId, {"unet"}, {})] >>],
     [model_id |-> "m3", enabled |-> TRUE, kind |-> "weights",
      ref |-> NoReference, inputs |-> <<>>, overrides |-> <<>>],
     [model_id |-> "m4", enabled |-> TRUE, kind |-> "ref",
      ref |-> Ref("m1", "unet", {}, {}), inputs |-> <<>>, overrides |-> <<>>],
     [model_id |-> "m5", enabled |-> TRUE, kind |-> "mix",
      ref |-> NoReference,
      inputs |-> << Ref("m1", NoneId, {}, {}), Ref("m3", NoneId, {}, {}) >>,
      overrides |-> <<>>],
     [model_id |-> "c1", enabled |-> TRUE, kind |-> "ref",
      ref |-> Ref("c2", NoneId, {}, {}), inputs |-> <<>>, overrides |-> <<>>],
     [model_id |-> "c2", enabled |-> TRUE, kind |-> "ref",
      ref |-> Ref("c1", NoneId, {}, {}), inputs |-> <<>>, overrides |-> <<>>],
     [model_id |-> "c3", enabled |-> TRUE, kind |-> "ref",
      ref |-> Ref("m1", NoneId, {}, {}), inputs |-> <<>>,
      overrides |-> << [name |-> "unet", ref |-> Ref("c3", "unet", {}, {})] >>],
     [model_id |-> "c4", enabled |-> TRUE, kind |-> "mix",
      ref |-> NoReference,
      inputs |-> << Ref("m1", NoneId, {}, {}), Ref("c4", NoneId, {}, {}) >>,
      overrides |-> <<>>],
     [model_id |-> "md", enabled |-> FALSE, kind |-> "weights",
      ref |-> NoReference, inputs |-> <<>>, overrides |-> <<>> ] >>

ModelIds == { model_engines[i].model_id : i \in 1..Len(model_engines) }

\* Lines 1418-1422: the enabled model specs with this model_id, in the order
\* of the configuration
_model_specs(modelid) ==
  SelectSeq(model_engines, LAMBDA s : s.enabled /\ s.model_id = modelid)

\* The values a model variable holds: None, a ModelSet (by identity), or a
\* single component (a torch module) told apart by the model it was loaded
\* for, its name in that model and the load that produced it
NoModel == [k |-> "None", o |-> 0, m |-> "", n |-> "", g |-> 0]

SetVal(o) == [k |-> "set", o |-> o, m |-> "", n |-> "", g |-> 0]

Component(m, n, g) == [k |-> "comp", o |-> 0, m |-> m, n |-> n, g |-> g]

\* The names of the components a load from weights produces (line 1365
\* returns them as one ModelSet)
ComponentNames == {"unet", "vae"}

FrozenKey == "_ModelSet__frozen"

\* ModelSet.__init__ (lines 479-481): the keyword arguments become the
\* attributes and the private flag is then set to False, whatever was passed
\* under its mangled name
ModelSet_init(kwargs) ==
  [frozen |-> FALSE,
   dict |-> [key \in DOMAIN kwargs \ {FrozenKey} |-> kwargs[key]]]

\* The __dict__ of a ModelSet: its attributes and the mangled flag
ModelSet_dict(ms) ==
  [key \in DOMAIN ms.dict \cup {FrozenKey} |->
     IF key = FrozenKey THEN ms.frozen ELSE ms.dict[key]]

\* ModelSet.freeze (lines 483-484)
ModelSet_freeze(ms) == [ms EXCEPT !.frozen = TRUE]

\* ModelSet.update (lines 486-493) with another ModelSet: raises when frozen,
\* else takes over every entry of the other's __dict__, its flag included
ModelSet_update(ms, other) ==
  IF ms.frozen
  THEN [raised |-> TRUE, ms |-> ms]
  ELSE [raised |-> FALSE,
        ms |-> [frozen |-> other.frozen,
                dict |-> [key \in DOMAIN ms.dict \cup DOMAIN other.dict |->
                            IF key \in DOMAIN other.dict
                            THEN other.dict[key] ELSE ms.dict[key]]]]

\* A copy that carries the frozen flag over
ModelSet_copy_KeepsFrozen(ms) ==
  [frozen |-> ms.frozen, dict |-> ms.dict]

\* ModelSet.copy (lines 495-496)
ModelSet_copy(ms) == ModelSet_init(ModelSet_dict(ms))

\* ModelSet.keys (lines 501-502)
ModelSet_keys(ms) == DOMAIN ModelSet_dict(ms)

\* ModelSet.__setitem__ (lines 516-520)
ModelSet_setitem(ms, key, value) ==
  IF ms.frozen
  THEN [raised |-> TRUE, ms |-> ms]
  ELSE [raised |-> FALSE,
        ms |-> [ms EXCEPT !.dict = [k \in DOMAIN ms.dict \cup {key} |->
                                      IF k = key THEN value ELSE ms.dict[k]]]]

\* Attribute assignment on a ModelSet: the class defines no __setattr__, so
\* SimpleNamespace's plain assignment applies, frozen or not
ModelSet_setattr(ms, name, value) ==
  [raised |-> FALSE,
   ms |-> [ms EXCEPT !.dict = [k \in DOMAIN ms.dict \cup {name} |->
                                 IF k = name THEN value ELSE ms.dict[k]]]]

\* How an outermost call stands: not started, running, returned value or
\* raised exception, with the spec it was called with, whether its own
\* reference was found in self._models, and what the caller last did to the
\* result
NoCall ==
  [status |-> "idle", spec |-> EngineSpec(NoReference), hit |-> FALSE,
   val |-> NoModel, exc |-> NoneId, op |-> "none", opraised |-> FALSE]

\* No function is called on its own
NoFunction ==
  /\ fargs = [fn |-> "none"]
  /\ flocals = [pc |-> "none"]

\* _get_url_path is not running, and the URL cache is empty
NoUrlCall ==
  [pc |-> "idle", local_only |-> FALSE, i |-> 0, missing |-> {}, temp |-> 0,
   out |-> NoneId]

NoUrlCalls ==
  /\ disk = [dirs |-> {}, final |-> << >>, temps |-> << >>]
  /\ ucalls = [t \in Threads |-> NoUrlCall]

\* Nothing was loaded or referenced yet
NoReferences ==
  /\ heap = <<>>
  /\ models = <<>>
  /\ stack = [t \in Threads |-> <<>>]
  /\ tret = [t \in Threads |-> NoModel]
  /\ tres = [t \in Threads |-> NoCall]
  /\ nloaded = [m \in ModelIds |-> 0]
  /\ nweights = [m \in ModelIds |-> 0]

\* _load_from_weight_candidates is not running
NoLoadOutcome == [status |-> "none", path |-> NoneId, exc |-> NoneId,
                  message |-> <<>>]

NoLoad ==
  /\ lspec = [id |-> NoneId, model_id |-> NoneId]
  /\ lidx = 0
  /\ failures = <<>>
  /\ linvoked = <<>>
  /\ lout = NoLoadOutcome

Init ==
  /\ ManagerInit /\ NoWrappers /\ NoDirectCall /\ NoResolution /\ NoLoad
  /\ NoReferences
  /\ NoFunction /\ NoUrlCalls

\* ---------------------------------------------------------- loadPipelines
\* dict assignment d[k] = v
DictSet(d, k, v) == [x \in DOMAIN d \cup {k} |-> IF x = k THEN v ELSE d[x]]

\* One loaded engine of the loop of loadPipelines (lines 1548-1553); ok says
\* whether _load_model returned (FALSE: it raised, which ends loadPipelines)
LoadEngine(ok) ==
  /\ load_pos \in 1..Len(engines)
  /\ LET engine == engines[load_pos]
     IN /\ defaults' = IF engine.default
                       THEN DictSet(defaults, engine.task, engine.id)
                       ELSE defaults
        /\ engine_models' = IF ok THEN engine_models \cup {engine.id}
                            ELSE engine_models
        /\ load_pos' = IF ok THEN NextToLoad(load_pos + 1) ELSE 0
  /\ exc' = NoExc
  /\ UNCHANGED << poolVars, wrapperVars, pc, localVars, directVars, resolveVars,
                  loaderVars, refVars, fnVars, urlVars >>

\* ------------------------------------------------------------ with_engine
\* Lines 1756-1768: fill in the default id, find the spec, check the task.
\* err is the exception raised (NoneId: none)
WithEngineEntry(id, task) ==
  LET key == IF task # NoneId THEN task ELSE "generate"
      bad(e) == [err |-> e, id |-> NoneId, spec |-> 0]
  IN IF id = NoneId /\ key \notin DOMAIN defaults THEN bad("KeyError")
     ELSE LET id1 == IF id = NoneId THEN defaults[key] ELSE id
          IN IF id1 = NoneId THEN bad("EngineNotFoundError")
             ELSE LET spec == _find_spec(id1)
                  IN IF spec = 0 THEN bad("EngineNotFoundError")
                     ELSE IF ~engines[spec].enabled
                          THEN bad("EngineNotFoundError")
                     ELSE IF task # NoneId /\ task # engines[spec].task
                          THEN bad("ValueError")
                     ELSE [err |-> NoneId, id |-> id1, spec |-> spec]

\* with_engine raises e: the frame is left, and its local variables with it
Raise(c, e) ==
  /\ pc' = [pc EXCEPT ![c] = "idle"]
  /\ exc' = [caller |-> c, type |-> e]
  /\ cslot' = [cslot EXCEPT ![c] = 0]
  /\ cpipe' = [cpipe EXCEPT ![c] = 0]
  /\ cid' = [cid EXCEPT ![c] = NoneId]
  /\ cspec' = [cspec EXCEPT ![c] = 0]
  /\ cexisting' = [cexisting EXCEPT ![c] = NoneId]

\* with_engine taking the slot before it has looked at the id and the task
Call_SlotFirst(c, id, task) ==
  /\ pc[c] = "idle"
  /\ device_queue # <<>>
  /\ device_queue' = Tail(device_queue)
  /\ LET r == WithEngineEntry(id, task)
         s == Head(device_queue)
     IN IF r.err # NoneId
        THEN Raise(c, r.err)
        ELSE /\ pc' = [pc EXCEPT ![c] = IF slot_pipeline[s] = 0 THEN "find"
                                        ELSE "displace"]
             /\ cid' = [cid EXCEPT ![c] = r.id]
             /\ cspec' = [cspec EXCEPT ![c] = r.spec]
             /\ cslot' = [cslot EXCEPT ![c] = s]
             /\ exc' = NoExc
             /\ UNCHANGED << cpipe, cexisting >>
  /\ UNCHANGED << slot_pipeline, available_pipelines, loadVars, wrapperVars,
                  directVars, resolveVars, loaderVars, refVars, fnVars,
                  urlVars >>

\* A caller enters with_engine(id, task), up to the blocking queue get
Call(c, id, task) ==
  /\ pc[c] = "idle"
  /\ LET r == WithEngineEntry(id, task)
     IN IF r.err # NoneId
        THEN Raise(c, r.err)
        ELSE /\ pc' = [pc EXCEPT ![c] = "wait"]
             /\ cid' = [cid EXCEPT ![c] = r.id]
             /\ cspec' = [cspec EXCEPT ![c] = r.spec]
             /\ exc' = NoExc
             /\ UNCHANGED << cslot, cpipe, cexisting >>
  /\ UNCHANGED << poolVars, loadVars, wrapperVars, directVars, resolveVars,
                  loaderVars, refVars, fnVars, urlVars >>

\* Line 1802: yield slot.pipeline
Yield(c, w) ==
  /\ pc' = [pc EXCEPT ![c] = "body"]
  /\ cpipe' = [cpipe EXCEPT ![c] = w]
  /\ exc' = NoExc

\* Acquire reading the head of the queue without taking it out
Acquire_Peek(c) ==
  /\ pc[c] = "wait"
  /\ device_queue # <<>>
  /\ LET s == Head(device_queue)
     IN /\ cslot' = [cslot EXCEPT ![c] = s]
        /\ IF slot_pipeline[s] # 0 /\ wid[slot_pipeline[s]] # cid[c]
           THEN /\ pc' = [pc EXCEPT ![c] = "displace"]
                /\ exc' = NoExc
                /\ UNCHANGED cpipe
           ELSE IF slot_pipeline[s] = 0
           THEN /\ pc' = [pc EXCEPT ![c] = "find"]
                /\ exc' = NoExc
                /\ UNCHANGED cpipe
           ELSE Yield(c, slot_pipeline[s])
  /\ UNCHANGED << device_queue, slot_pipeline, available_pipelines, cid, cspec,
                  cexisting, loadVars, wrapperVars, directVars, resolveVars,
                  loaderVars, refVars, fnVars, urlVars >>

\* Acquire treating every resident pipeline as one to displace
Acquire_AlwaysDisplace(c) ==
  /\ pc[c] = "wait"
  /\ device_queue # <<>>
  /\ LET s == Head(device_queue)
     IN /\ cslot' = [cslot EXCEPT ![c] = s]
        /\ device_queue' = Tail(device_queue)
        /\ pc' = [pc EXCEPT ![c] = IF slot_pipeline[s] # 0 THEN "displace"
                                   ELSE "find"]
        /\ exc' = NoExc
        /\ UNCHANGED cpipe
  /\ UNCHANGED << slot_pipeline, available_pipelines, cid, cspec, cexisting,
                  loadVars, wrapperVars, directVars, resolveVars,
                  loaderVars, refVars, fnVars, urlVars >>

\* Line 1771: slot = self._device_queue.get(), blocking while it is empty;
\* then the tests of lines 1777 and 1787 on the slot just taken, up to the
\* next access to a shared pool
Acquire(c) ==
  /\ pc[c] = "wait"
  /\ device_queue # <<>>
  /\ LET s == Head(device_queue)
     IN /\ cslot' = [cslot EXCEPT ![c] = s]
        /\ device_queue' = Tail(device_queue)
        /\ IF slot_pipeline[s] # 0 /\ wid[slot_pipeline[s]] # cid[c]
           THEN /\ pc' = [pc EXCEPT ![c] = "displace"]
                /\ exc' = NoExc
                /\ UNCHANGED cpipe
           ELSE IF slot_pipeline[s] = 0
           THEN /\ pc' = [pc EXCEPT ![c] = "find"]
                /\ exc' = NoExc
                /\ UNCHANGED cpipe
           ELSE Yield(c, slot_pipeline[s])
  /\ UNCHANGED << slot_pipeline, available_pipelines, cid, cspec, cexisting,
                  loadVars, wrapperVars, directVars, resolveVars,
                  loaderVars, refVars, fnVars, urlVars >>

\* _return_pipeline_to_pool leaving the pipeline on the slot as well
_return_pipeline_to_pool_KeepsResident(c, s) ==
  LET w == slot_pipeline[s]
      d == deactivate(wprev[w], wattrs[w])
  IN /\ wprev' = [wprev EXCEPT ![w] = d.previous]
     /\ wattrs' = [wattrs EXCEPT ![w] = d.attrs]
     /\ available_pipelines' =
          [available_pipelines EXCEPT ![wid[w]] = Append(@, w)]
     /\ pc' = [pc EXCEPT ![c] = "find"]
     /\ exc' = NoExc
     /\ UNCHANGED << slot_pipeline, wid, localVars >>

\* _return_pipeline_to_pool(slot), called by caller c
_return_pipeline_to_pool(c, s) ==
  LET w == slot_pipeline[s]
      d == deactivate(wprev[w], wattrs[w])
  IN IF d.raised
     THEN /\ Raise(c, "Exception")
          /\ UNCHANGED << slot_pipeline, available_pipelines, wrapperVars >>
     ELSE /\ wprev' = [wprev EXCEPT ![w] = d.previous]
          /\ wattrs' = [wattrs EXCEPT ![w] = d.attrs]
          /\ slot_pipeline' = [slot_pipeline EXCEPT ![s] = 0]
          /\ available_pipelines' =
               [available_pipelines EXCEPT ![wid[w]] = Append(@, w)]
          /\ pc' = [pc EXCEPT ![c] = "find"]
          /\ exc' = NoExc
          /\ UNCHANGED << wid, localVars >>

\* Lines 1777-1783: a resident pipeline of another id goes back to its pool
Displace(c) ==
  /\ pc[c] = "displace"
  /\ _return_pipeline_to_pool(c, cslot[c])
  /\ UNCHANGED << device_queue, loadVars, directVars, resolveVars,
                  loaderVars, refVars, fnVars, urlVars >>

\* _get_pipeline_from_pool never finding a pooled pipeline
_get_pipeline_from_pool_Miss(c, s, id) ==
  /\ pc' = [pc EXCEPT ![c] = "build"]
  /\ exc' = NoExc
  /\ cexisting' = [cexisting EXCEPT ![c] = "True"]
  /\ UNCHANGED << slot_pipeline, available_pipelines, wrapperVars, cid, cspec,
                  cslot, cpipe >>

\* Lines 1788-1789: existing = True, then _get_pipeline_from_pool(slot, id),
\* called by caller c, and what with_engine does with its outcome
_get_pipeline_from_pool(c, s, id) ==
  LET pool == available_pipelines[id]
  IN IF pool = <<>>
     THEN /\ pc' = [pc EXCEPT ![c] = "build"]
          /\ exc' = NoExc
          /\ cexisting' = [cexisting EXCEPT ![c] = "True"]
          /\ UNCHANGED << slot_pipeline, available_pipelines, wrapperVars,
                          cid, cspec, cslot, cpipe >>
     ELSE LET w == Head(pool)
              a == activate(wprev[w], wattrs[w], s)
          IN /\ available_pipelines' =
                  [available_pipelines EXCEPT ![id] = Tail(pool)]
             /\ slot_pipeline' = [slot_pipeline EXCEPT ![s] = w]
             /\ wprev' = [wprev EXCEPT ![w] = a.previous]
             /\ wattrs' = [wattrs EXCEPT ![w] = a.attrs]
             /\ UNCHANGED wid
             /\ IF a.raised THEN Raise(c, "Exception")
                ELSE /\ Yield(c, w)
                     /\ cexisting' = [cexisting EXCEPT ![c] = "True"]
                     /\ UNCHANGED << cid, cspec, cslot >>

\* Lines 1787-1789 (and 1802 when a pipeline is on the slot)
Find(c) ==
  /\ pc[c] = "find"
  /\ LET s == cslot[c]
     IN IF slot_pipeline[s] = 0
        THEN _get_pipeline_from_pool(c, s, cid[c])
        ELSE /\ Yield(c, slot_pipeline[s])
             /\ UNCHANGED << slot_pipeline, available_pipelines, wrapperVars,
                             cid, cspec, cslot, cexisting >>
  /\ UNCHANGED << device_queue, loadVars, directVars, resolveVars,
                  loaderVars, refVars, fnVars, urlVars >>

\* Lines 1791-1794 (and 1802): existing = False, _build_pipeline_for_engine,
\* then activate
Build(c) ==
  /\ pc[c] = "build"
  /\ LET s == cslot[c]
         spec == engines[cspec[c]]
         w == Len(wid) + 1
         a == activate(NonePrevious, NewPipelineAttrs(w, spec), s)
     IN IF spec.id \notin engine_models
        THEN /\ Raise(c, "EngineNotReadyError")
             /\ UNCHANGED << slot_pipeline, wrapperVars >>
        ELSE /\ Len(wid) < MaxBuilt
             /\ wid' = Append(wid, spec.id)
             /\ wprev' = Append(wprev, a.previous)
             /\ wattrs' = Append(wattrs, a.attrs)
             /\ slot_pipeline' = [slot_pipeline EXCEPT ![s] = w]
             /\ IF a.raised THEN Raise(c, "Exception")
                ELSE /\ Yield(c, w)
                     /\ cexisting' = [cexisting EXCEPT ![c] = "False"]
                     /\ UNCHANGED << cid, cspec, cslot >>
  /\ UNCHANGED << device_queue, available_pipelines, loadVars, directVars, resolveVars,
                  loaderVars, refVars, fnVars, urlVars >>

\* Release as a plain statement after the yield instead of a finally block:
\* skipped when the body raises
Release_NoFinally(c, raised) ==
  /\ device_queue' = IF raised THEN device_queue
                     ELSE Append(device_queue, cslot[c])
  /\ IF raised THEN Raise(c, "BodyError")
     ELSE /\ pc' = [pc EXCEPT ![c] = "idle"]
          /\ exc' = NoExc
          /\ cslot' = [cslot EXCEPT ![c] = 0]
          /\ cpipe' = [cpipe EXCEPT ![c] = 0]
          /\ cid' = [cid EXCEPT ![c] = NoneId]
          /\ cspec' = [cspec EXCEPT ![c] = 0]
          /\ cexisting' = [cexisting EXCEPT ![c] = NoneId]

\* Lines 1803-1805: the finally block puts the slot back and the generator
\* ends (raised: the body's exception is re-raised out of with_engine)
Release(c, raised) ==
  /\ device_queue' = Append(device_queue, cslot[c])
  /\ IF raised THEN Raise(c, "BodyError")
     ELSE /\ pc' = [pc EXCEPT ![c] = "idle"]
          /\ exc' = NoExc
          /\ cslot' = [cslot EXCEPT ![c] = 0]
          /\ cpipe' = [cpipe EXCEPT ![c] = 0]
          /\ cid' = [cid EXCEPT ![c] = NoneId]
          /\ cspec' = [cspec EXCEPT ![c] = 0]
          /\ cexisting' = [cexisting EXCEPT ![c] = NoneId]

\* The caller's with-body ends, normally or by raising
BodyExit(c, raised) ==
  /\ pc[c] = "body"
  /\ Release(c, raised)
  /\ UNCHANGED << slot_pipeline, available_pipelines, loadVars,
                  wrapperVars, directVars, resolveVars,
                  loaderVars, refVars, fnVars, urlVars >>

Next ==
  \/ \E ok \in BOOLEAN : LoadEngine(ok)
  \/ \E c \in Callers, id \in RequestIds, task \in RequestTasks :
       Call(c, id, task)
  \/ \E c \in Callers : Acquire(c)
  \/ \E c \in Callers : Displace(c)
  \/ \E c \in Callers : Find(c)
  \/ \E c \in Callers : Build(c)
  \/ \E c \in Callers, raised \in BOOLEAN : BodyExit(c, raised)

Spec == Init /\ [][Next]_vars

\* Fair scheduling of the caller threads: a thread that is not blocked takes
\* its next step, a body that was entered is left, and a thread blocked in
\* Queue.get gets a slot if slots keep coming back to the queue
FairCallers ==
  \A c \in Callers :
    /\ SF_vars(Acquire(c))
    /\ WF_vars(Displace(c))
    /\ WF_vars(Find(c))
    /\ WF_vars(Build(c))
    /\ WF_vars(\E raised \in BOOLEAN : BodyExit(c, raised))

SpecT == Init /\ [][Next]_vars /\ FairCallers

\* The requests that name an engine by its exact id: no pattern characters
\* for the fnmatch of _find_specs (no id at all selects the default)
ExactRequestIds ==
  {id \in RequestIds :
     id = NoneId \/ \A i \in DOMAIN Chars[id] : Chars[id][i] \notin {"*", "?"}}

\* The manager used by callers that only pass exact ids
NextX ==
  \/ \E ok \in BOOLEAN : LoadEngine(ok)
  \/ \E c \in Callers, id \in ExactRequestIds, task \in RequestTasks :
       Call(c, id, task)
  \/ \E c \in Callers : Acquire(c)
  \/ \E c \in Callers : Displace(c)
  \/ \E c \in Callers : Find(c)
  \/ \E c \in Callers : Build(c)
  \/ \E c \in Callers, raised \in BOOLEAN : BodyExit(c, raised)

SpecX == Init /\ [][NextX]_vars

\* ------------------------------------- PipelineWrapper, called directly
\* The attribute names of the pipelines wrapped below
WrappedNames == {"unet", "vae", "clip_model"}

\* PipelineWrapper.__init__ on a pipeline whose attributes each hold a
\* module, None or some other object: _previous is None
InitW ==
  /\ ManagerInit /\ NoDirectCall /\ NoResolution /\ NoLoad
  /\ NoReferences
  /\ NoFunction /\ NoUrlCalls
  /\ wid = << "e1" >>
  /\ wprev = << NonePrevious >>
  /\ \E kinds \in [WrappedNames -> {"host", "None", "other"}] :
       wattrs = << [n \in WrappedNames \cup {"scheduler"} |->
                     IF n = "scheduler" THEN OtherRef(1, n)
                     ELSE IF kinds[n] = "host" THEN HostRef(1, n)
                     ELSE IF kinds[n] = "other" THEN OtherRef(1, n)
                     ELSE NoRef] >>

\* The exception a directly called wrapper method raises
DirectExc(raised) ==
  IF raised THEN [caller |-> 0, type |-> "Exception"] ELSE NoExc

\* wrapper.activate(device)
DirectActivate(device) ==
  /\ LET a == activate(wprev[1], wattrs[1], device)
     IN /\ wprev' = << a.previous >>
        /\ wattrs' = << a.attrs >>
        /\ exc' = DirectExc(a.raised)
        /\ wbefore' = IF a.raised THEN wbefore ELSE wattrs[1]
  /\ wcall' = [op |-> "activate", device |-> device]
  /\ UNCHANGED << wid, poolVars, loadVars, pc, localVars, resolveVars,
                  loaderVars, refVars, fnVars, urlVars >>

\* wrapper.deactivate()
DirectDeactivate ==
  /\ LET d == deactivate(wprev[1], wattrs[1])
     IN /\ wprev' = << d.previous >>
        /\ wattrs' = << d.attrs >>
        /\ exc' = DirectExc(d.raised)
  /\ wcall' = [op |-> "deactivate", device |-> 0]
  /\ UNCHANGED << wid, wbefore, poolVars, loadVars, pc, localVars,
                  resolveVars,
                  loaderVars, refVars, fnVars, urlVars >>

NextW ==
  \/ \E device \in Slots : DirectActivate(device)
  \/ DirectDeactivate

SpecW == InitW /\ [][NextW]_vars

\* -------------------------------------------------- weight resolution
\* The manager settings and spec fields weight resolution is run on
ResolveInputs ==
  [refresh_models : {<<>>, << "r*" >>, << "q?", "r*" >>},
   refresh_on_error : BOOLEAN,
   mode : [device : {"cuda", "cpu"}, vramO : {1, 2}],
   model : ModelPaths \cup {NoneId},
   fp16 : {"auto", "only", "local", "never", "prevent"}]

InitR ==
  /\ ManagerInit /\ NoWrappers /\ NoDirectCall /\ NoLoad
  /\ NoReferences
  /\ NoFunction /\ NoUrlCalls
  /\ rin \in ResolveInputs
  /\ rstage = "start"
  /\ rcands = <<>>

\* Line 1368: candidates = self._get_weight_path_candidates(spec)
GetCandidates ==
  /\ rstage = "start"
  /\ rcands' = _get_weight_path_candidates(rin)
  /\ rstage' = "candidates"
  /\ UNCHANGED << rin, poolVars, loadVars, wrapperVars, pc, localVars, exc,
                  directVars, loaderVars, refVars, fnVars, urlVars >>

NextR ==
  \/ GetCandidates

SpecR == InitR /\ [][NextR]_vars

\* ------------------------------------------ _load_from_weight_candidates
\* The weight path each source function returns when it returns one
WeightPath(cand) ==
  CASE cand.fn = "_get_local_path" -> IF cand.fp16 THEN "L16" ELSE "L"
    [] cand.fn = "_get_url_path" -> "U"
    [] OTHER -> "H"

\* The ValueErrors a source function can raise instead of returning a path
SourceFailures(cand, in) ==
  CASE cand.fn = "_get_local_path" ->
         {"No local model field was provided",
          IF cand.fp16 THEN "Path 'L16' isn't a directory"
          ELSE "Path 'L' isn't a directory"}
    [] cand.fn = "_get_url_path" ->
         {"No URL was provided"} \cup
         (IF cand.local_only THEN {"No local cache for URL"} ELSE {})
    [] OTHER ->
         IF in.model = NoneId THEN {"No remote model name was provided"}
         ELSE IF cand.local_only
              THEN {"Couldn't query local HuggingFace cache."}
              ELSE {"Downloading from HuggingFace failed."}

\* errstr of line 1383: the message of a load that failed with a path
LoadErrstr(path) ==
  CASE path = "L16" -> "Error when trying to load weights from L16. load failed"
    [] path = "L" -> "Error when trying to load weights from L. load failed"
    [] path = "U" -> "Error when trying to load weights from U. load failed"
    [] OTHER -> "Error when trying to load weights from H. load failed"

\* What one iteration of the loop can meet: the source function returns a
\* path and the load succeeds ("ok"), the source function raises a ValueError
\* or another exception (the download of _get_url_path, lines 919-935), or it
\* returns a path and _load_from_weights raises a ValueError or another
\* exception
Outcomes(cand, in) ==
  LET has_path == ~(cand.fn \in {"_get_hf_path", "_get_hf_forced_path"}
                    /\ in.model = NoneId)
  IN {[kind |-> "ValueError", reason |-> r] : r \in SourceFailures(cand, in)}
     \cup (IF cand.fn = "_get_url_path" /\ ~cand.local_only
           THEN {[kind |-> "Exception", reason |-> "download failed"]}
           ELSE {})
     \cup (IF has_path
           THEN {[kind |-> "ok", reason |-> NoneId],
                 [kind |-> "load ValueError", reason |-> "Unsupported weights"],
                 [kind |-> "load Exception",
                  reason |-> LoadErrstr(WeightPath(cand))]}
           ELSE {})

\* What the candidate the loop is at can meet
CurrentOutcomes ==
  IF lidx \in 1..Len(rcands) THEN Outcomes(rcands[lidx], rin) ELSE {}

\* Lines 1379-1380 and 1387-1388 with the membership test left out
AppendNew_NoDedup(fails, reason) == Append(fails, reason)

\* Lines 1379-1380 and 1387-1388: if reason not in failures: failures.append
AppendNew(fails, reason) ==
  IF \E i \in DOMAIN fails : fails[i] = reason THEN fails
  ELSE Append(fails, reason)

\* Lines 1392-1398: the first line of the aggregated message, with the name
\* "engine <id>" of an engine and "model <model_id>" of anything else
LoadHeader(spec) ==
  CASE spec.id = "e1" -> "Failed to load engine e1. Failed attempts:"
    [] spec.id = NoneId /\ spec.model_id = "m1" ->
         "Failed to load model m1. Failed attempts:"
    [] OTHER -> "Failed to load model None. Failed attempts:"

\* The specs and settings the loop is run on
LoadInputs ==
  [refresh_models : {<<>>, << "r*" >>},
   refresh_on_error : BOOLEAN,
   mode : {[device |-> "cuda", vramO |-> 2], [device |-> "cpu", vramO |-> 2]},
   model : {"r1", NoneId},
   fp16 : {"auto", "only"}]

\* An engine, a model, and the spec of an override (line 1465), which has
\* neither an id nor a model_id
LoadSpecs ==
  {[id |-> "e1", model_id |-> NoneId], [id |-> NoneId, model_id |-> "m1"],
   [id |-> NoneId, model_id |-> NoneId]}

\* Entry of _load_from_weight_candidates(spec): line 1370, failures = []
InitL ==
  /\ ManagerInit /\ NoWrappers /\ NoDirectCall
  /\ NoReferences
  /\ NoFunction /\ NoUrlCalls
  /\ rin \in LoadInputs
  /\ rstage = "start"
  /\ rcands = <<>>
  /\ lspec \in LoadSpecs
  /\ lidx = 1
  /\ failures = <<>>
  /\ linvoked = <<>>
  /\ lout = [NoLoadOutcome EXCEPT !.status = "running"]

\* One iteration that treats every exception as a collected failure
TryCandidate_CollectsAll(o) ==
  /\ rstage = "candidates"
  /\ lout.status = "running"
  /\ lidx \in 1..Len(rcands)
  /\ o \in Outcomes(rcands[lidx], rin)
  /\ linvoked' = Append(linvoked, [cand |-> rcands[lidx], got |-> o.kind,
                                   reason |-> o.reason])
  /\ IF o.kind = "ok"
     THEN /\ lout' = [lout EXCEPT !.status = "returned",
                                  !.path = WeightPath(rcands[lidx])]
          /\ UNCHANGED << lidx, failures >>
     ELSE /\ failures' = AppendNew(failures, o.reason)
          /\ lidx' = lidx + 1
          /\ UNCHANGED lout
  /\ UNCHANGED << lspec, resolveVars, poolVars, loadVars, wrapperVars, pc,
                  localVars, exc, directVars, refVars, fnVars, urlVars >>

\* One iteration that gives up when a load fails after a path was obtained
TryCandidate_LoadFailAborts(o) ==
  /\ rstage = "candidates"
  /\ lout.status = "running"
  /\ lidx \in 1..Len(rcands)
  /\ o \in Outcomes(rcands[lidx], rin)
  /\ linvoked' = Append(linvoked, [cand |-> rcands[lidx], got |-> o.kind,
                                   reason |-> o.reason])
  /\ IF o.kind = "ok"
     THEN /\ lout' = [lout EXCEPT !.status = "returned",
                                  !.path = WeightPath(rcands[lidx])]
          /\ UNCHANGED << lidx, failures >>
     ELSE IF o.kind = "ValueError"
     THEN /\ failures' = AppendNew(failures, o.reason)
          /\ lidx' = lidx + 1
          /\ UNCHANGED lout
     ELSE /\ lout' = [lout EXCEPT !.status = "raised", !.exc = "Exception"]
          /\ UNCHANGED << lidx, failures >>
  /\ UNCHANGED << lspec, resolveVars, poolVars, loadVars, wrapperVars, pc,
                  localVars, exc, directVars, refVars, fnVars, urlVars >>

\* Lines 1372-1390: one iteration of the loop over the candidates, meeting
\* outcome o
TryCandidate(o) ==
  /\ rstage = "candidates"
  /\ lout.status = "running"
  /\ lidx \in 1..Len(rcands)
  /\ o \in Outcomes(rcands[lidx], rin)
  /\ linvoked' = Append(linvoked, [cand |-> rcands[lidx], got |-> o.kind,
                                   reason |-> o.reason])
  /\ IF o.kind = "ok"
     THEN /\ lout' = [lout EXCEPT !.status = "returned",
                                  !.path = WeightPath(rcands[lidx])]
          /\ UNCHANGED << lidx, failures >>
     ELSE IF o.kind \in {"ValueError", "load ValueError", "load Exception"}
     THEN /\ failures' = AppendNew(failures, o.reason)
          /\ lidx' = lidx + 1
          /\ UNCHANGED lout
     ELSE /\ lout' = [lout EXCEPT !.status = "raised", !.exc = "Exception"]
          /\ UNCHANGED << lidx, failures >>
  /\ UNCHANGED << lspec, resolveVars, poolVars, loadVars, wrapperVars, pc,
                  localVars, exc, directVars, refVars, fnVars, urlVars >>

\* Lines 1392-1399: the loop is over, raise the aggregated EnvironmentError.
\* The message is kept as the list of the lines that are joined
Exhausted ==
  /\ rstage = "candidates"
  /\ lout.status = "running"
  /\ lidx = Len(rcands) + 1
  /\ lout' = [lout EXCEPT !.status = "raised", !.exc = "EnvironmentError",
                          !.message = << LoadHeader(lspec) >> \o failures]
  /\ UNCHANGED << lspec, lidx, failures, linvoked, resolveVars, poolVars,
                  loadVars, wrapperVars, pc, localVars, exc, directVars, refVars, fnVars, urlVars >>

NextL ==
  \/ GetCandidates
  \/ \E o \in CurrentOutcomes : TryCandidate(o)
  \/ Exhausted

SpecL == InitL /\ [][NextL]_vars

\* ---------------------------------------------------------------------------
\* _load_model and _load_from_reference, one step per call, return or store
\* ---------------------------------------------------------------------------

Min(a, b) == IF a < b THEN a ELSE b

\* A new frame of _load_model(spec): model is its local variable, i the
\* position in its overrides or mix inputs, acc the models list of
\* _load_mixed_model
Frame(spec) ==
  [spec |-> spec, pc |-> "start", model |-> NoModel, i |-> 1, acc |-> <<>>]

Top(t) == stack[t][Len(stack[t])]

WithTop(t, f) == [stack[t] EXCEPT ![Len(stack[t])] = f]

\* A new object gets the smallest identity not in use
NewOid(h) ==
  CHOOSE o \in 1..(Cardinality(DOMAIN h) + 1) :
    /\ o \notin DOMAIN h
    /\ \A p \in 1..(o - 1) : p \in DOMAIN h

Alloc(h, ms) ==
  [o \in DOMAIN h \cup {NewOid(h)} |-> IF o \in DOMAIN h THEN h[o] ELSE ms]

\* The objects something still refers to: the cache, a frame's locals, a
\* value being returned, a caller's result
Live(h, M, S, R, T) ==
  { o \in DOMAIN h :
      \/ \E m \in DOMAIN M : M[m] = SetVal(o)
      \/ \E t \in Threads :
           \/ R[t] = SetVal(o)
           \/ T[t].val = SetVal(o)
           \/ \E i \in 1..Len(S[t]) :
                \/ S[t][i].model = SetVal(o)
                \/ \E j \in 1..Len(S[t][i].acc) : S[t][i].acc[j] = SetVal(o) }

\* The heap after a step: h without the objects nothing refers to any more
Collect(h) ==
  heap' = [o \in Live(h, models', stack', tret', tres') |-> h[o]]

\* An exception leaves every frame of the thread (nothing on the way
\* catches it)
Unwind(t, e, h, T) ==
  /\ stack' = [stack EXCEPT ![t] = <<>>]
  /\ tret' = [tret EXCEPT ![t] = NoModel]
  /\ tres' = [T EXCEPT ![t].status = "raised", ![t].exc = e]
  /\ Collect(h)

\* A nested call past the recursion limit that yields None to the calling
\* frame instead of raising
CallLoadModel_Swallow(t, f, spec, h, T) ==
  IF Len(stack[t]) >= MaxDepth
  THEN /\ stack' = [stack EXCEPT ![t] = WithTop(t, f)]
       /\ tret' = [tret EXCEPT ![t] = NoModel]
       /\ tres' = T
       /\ Collect(h)
  ELSE /\ stack' = [stack EXCEPT ![t] = Append(WithTop(t, f), Frame(spec))]
       /\ tret' = [tret EXCEPT ![t] = NoModel]
       /\ tres' = T
       /\ Collect(h)

\* The running frame becomes f and calls self._load_model(spec); a call
\* that would exceed the interpreter's recursion limit raises RecursionError
CallLoadModel(t, f, spec, h, T) ==
  IF Len(stack[t]) >= MaxDepth
  THEN Unwind(t, "RecursionError", h, T)
  ELSE /\ stack' = [stack EXCEPT ![t] = Append(WithTop(t, f), Frame(spec))]
       /\ tret' = [tret EXCEPT ![t] = NoModel]
       /\ tres' = T
       /\ Collect(h)

\* The running frame goes on as f
Continue(t, f, h, T) ==
  /\ stack' = [stack EXCEPT ![t] = WithTop(t, f)]
  /\ tret' = [tret EXCEPT ![t] = NoModel]
  /\ tres' = T
  /\ Collect(h)

\* return model (line 1473): to the calling frame, or to the caller of the
\* outermost call
Return(t, v, h) ==
  /\ IF Len(stack[t]) = 1
     THEN /\ stack' = [stack EXCEPT ![t] = <<>>]
          /\ tret' = [tret EXCEPT ![t] = NoModel]
          /\ tres' = [tres EXCEPT ![t].status = "returned", ![t].val = v]
     ELSE /\ stack' = [stack EXCEPT ![t] = SubSeq(stack[t], 1, Len(stack[t]) - 1)]
          /\ tret' = [tret EXCEPT ![t] = v]
          /\ UNCHANGED tres
  /\ Collect(h)

\* The whole-set reference handing out the cached object itself
SelectModel_Shared(h, v, ref) ==
  IF ref.sub # NoneId
  THEN IF v.k = "set" /\ ref.sub \in DOMAIN h[v.o].dict
       THEN [exc |-> NoneId, heap |-> h, val |-> h[v.o].dict[ref.sub]]
       ELSE [exc |-> "AttributeError", heap |-> h, val |-> NoModel]
  ELSE IF ref.whitelist # {} \/ ref.blacklist # {}
  THEN IF v.k # "set"
       THEN [exc |-> "AttributeError", heap |-> h, val |-> NoModel]
       ELSE LET keys == ModelSet_keys(h[v.o])
                wl == IF ref.whitelist # {} THEN keys \cap ref.whitelist
                      ELSE keys
                include == wl \ ref.blacklist
                items == ModelSet_dict(h[v.o])
                new == ModelSet_init([key \in include |-> items[key]])
            IN [exc |-> NoneId, heap |-> Alloc(h, new),
                val |-> SetVal(NewOid(h))]
  ELSE [exc |-> NoneId, heap |-> h, val |-> v]

\* Lines 1432-1445: what _load_from_reference returns for the model it
\* found or loaded: the named component, a filtered new ModelSet, a copy of
\* a ModelSet, or the model itself when it is a single component
SelectModel(h, v, ref) ==
  IF ref.sub # NoneId
  THEN IF v.k = "set" /\ ref.sub \in DOMAIN h[v.o].dict
       THEN [exc |-> NoneId, heap |-> h, val |-> h[v.o].dict[ref.sub]]
       ELSE [exc |-> "AttributeError", heap |-> h, val |-> NoModel]
  ELSE IF ref.whitelist # {} \/ ref.blacklist # {}
  THEN IF v.k # "set"
       THEN [exc |-> "AttributeError", heap |-> h, val |-> NoModel]
       ELSE LET keys == ModelSet_keys(h[v.o])
                wl == IF ref.whitelist # {} THEN keys \cap ref.whitelist
                      ELSE keys
                include == wl \ ref.blacklist
                items == ModelSet_dict(h[v.o])
                new == ModelSet_init([key \in include |-> items[key]])
            IN [exc |-> NoneId, heap |-> Alloc(h, new),
                val |-> SetVal(NewOid(h))]
  ELSE IF v.k = "set"
  THEN [exc |-> NoneId, heap |-> Alloc(h, ModelSet_copy(h[v.o])),
        val |-> SetVal(NewOid(h))]
  ELSE [exc |-> NoneId, heap |-> h, val |-> v]

\* A caller calls self._load_model(spec)
Resolve(t, spec) ==
  /\ stack[t] = <<>>
  /\ stack' = [stack EXCEPT ![t] = << Frame(spec) >>]
  /\ tret' = [tret EXCEPT ![t] = NoModel]
  /\ tres' = [tres EXCEPT ![t] = [NoCall EXCEPT !.status = "running",
                                                !.spec = spec]]
  /\ UNCHANGED << models, nloaded, nweights >>
  /\ Collect(heap)

\* A lookup that puts an empty entry into self._models before it loads
LoadModel_StoresFirst(t) ==
  /\ stack[t] # <<>>
  /\ Top(t).pc = "start"
  /\ LET f == Top(t)
         s == f.spec
         mid == s.ref.mid
         outer == Len(stack[t]) = 1
     IN CASE s.kind = "weights" ->
               \E ok \in BOOLEAN :
                 IF ok
                 THEN LET g == Min(nweights[s.model_id] + 1, MaxLoads)
                          new == ModelSet_init(
                                   [n \in ComponentNames |->
                                      Component(s.model_id, n, g)])
                      IN /\ nweights' = [nweights EXCEPT ![s.model_id] = g]
                         /\ UNCHANGED << models, nloaded >>
                         /\ Continue(t, [f EXCEPT !.pc = "overrides",
                                                  !.model = SetVal(NewOid(heap))],
                                     Alloc(heap, new), tres)
                 ELSE /\ UNCHANGED << models, nloaded, nweights >>
                      /\ Unwind(t, "EnvironmentError", heap, tres)
          [] s.kind = "ref" ->
               /\ UNCHANGED << nloaded, nweights >>
               /\ models' = IF mid \in DOMAIN models \/ _model_specs(mid) = <<>>
                            THEN models
                            ELSE [m \in DOMAIN models \cup {mid} |->
                                    IF m = mid THEN NoModel ELSE models[m]]
               /\ IF mid \in DOMAIN models
                  THEN LET r == SelectModel(heap, models[mid], s.ref)
                           T == IF outer THEN [tres EXCEPT ![t].hit = TRUE]
                                ELSE tres
                       IN IF r.exc # NoneId
                          THEN Unwind(t, r.exc, heap, T)
                          ELSE Continue(t, [f EXCEPT !.pc = "overrides",
                                                     !.model = r.val],
                                        r.heap, T)
                  ELSE IF _model_specs(mid) = <<>>
                  THEN Unwind(t, "EnvironmentError", heap, tres)
                  ELSE CallLoadModel(t, [f EXCEPT !.pc = "store"],
                                     _model_specs(mid)[1], heap, tres)
          [] s.kind = "mix" ->
               /\ UNCHANGED << models, nloaded, nweights >>
               /\ CallLoadModel(t, [f EXCEPT !.pc = "mixing"],
                                EngineSpec(s.inputs[1]), heap, tres)

\* _load_model up to its first nested call (lines 1449-1456), with
\* _load_from_reference up to the cache lookup (lines 1402-1428) and
\* _load_mixed_model up to its first input (lines 1197-1203)
LoadModel(t) ==
  /\ stack[t] # <<>>
  /\ Top(t).pc = "start"
  /\ LET f == Top(t)
         s == f.spec
         mid == s.ref.mid
         outer == Len(stack[t]) = 1
     IN CASE s.kind = "weights" ->
               \E ok \in BOOLEAN :
                 IF ok
                 THEN LET g == Min(nweights[s.model_id] + 1, MaxLoads)
                          new == ModelSet_init(
                                   [n \in ComponentNames |->
                                      Component(s.model_id, n, g)])
                      IN /\ nweights' = [nweights EXCEPT ![s.model_id] = g]
                         /\ UNCHANGED << models, nloaded >>
                         /\ Continue(t, [f EXCEPT !.pc = "overrides",
                                                  !.model = SetVal(NewOid(heap))],
                                     Alloc(heap, new), tres)
                 ELSE /\ UNCHANGED << models, nloaded, nweights >>
                      /\ Unwind(t, "EnvironmentError", heap, tres)
          [] s.kind = "ref" ->
               /\ UNCHANGED << models, nloaded, nweights >>
               /\ IF mid \in DOMAIN models
                  THEN LET r == SelectModel(heap, models[mid], s.ref)
                           T == IF outer THEN [tres EXCEPT ![t].hit = TRUE]
                                ELSE tres
                       IN IF r.exc # NoneId
                          THEN Unwind(t, r.exc, heap, T)
                          ELSE Continue(t, [f EXCEPT !.pc = "overrides",
                                                     !.model = r.val],
                                        r.heap, T)
                  ELSE IF _model_specs(mid) = <<>>
                  THEN Unwind(t, "EnvironmentError", heap, tres)
                  ELSE CallLoadModel(t, [f EXCEPT !.pc = "store"],
                                     _model_specs(mid)[1], heap, tres)
          [] s.kind = "mix" ->
               /\ UNCHANGED << models, nloaded, nweights >>
               /\ CallLoadModel(t, [f EXCEPT !.pc = "mixing"],
                                EngineSpec(s.inputs[1]), heap, tres)

\* A store that leaves an entry another load already made
StoreReference_KeepFirst(t) ==
  /\ stack[t] # <<>>
  /\ Top(t).pc = "store"
  /\ LET f == Top(t)
         mid == f.spec.ref.mid
         v == IF mid \in DOMAIN models THEN models[mid] ELSE tret[t]
         h1 == IF v.k = "set"
               THEN [heap EXCEPT ![v.o] = ModelSet_freeze(heap[v.o])]
               ELSE heap
         r == SelectModel(h1, v, f.spec.ref)
     IN /\ models' = [m \in DOMAIN models \cup {mid} |->
                        IF m = mid THEN v ELSE models[m]]
        /\ nloaded' = [nloaded EXCEPT ![mid] = Min(nloaded[mid] + 1, MaxLoads)]
        /\ UNCHANGED nweights
        /\ IF r.exc # NoneId
           THEN Unwind(t, r.exc, h1, tres)
           ELSE Continue(t, [f EXCEPT !.pc = "overrides", !.model = r.val],
                         r.heap, tres)

\* A load whose result is not put into self._models
StoreReference_NoStore(t) ==
  /\ stack[t] # <<>>
  /\ Top(t).pc = "store"
  /\ LET f == Top(t)
         mid == f.spec.ref.mid
         v == tret[t]
         h1 == IF v.k = "set"
               THEN [heap EXCEPT ![v.o] = ModelSet_freeze(heap[v.o])]
               ELSE heap
         r == SelectModel(h1, v, f.spec.ref)
     IN /\ models' = models
        /\ nloaded' = [nloaded EXCEPT ![mid] = Min(nloaded[mid] + 1, MaxLoads)]
        /\ UNCHANGED nweights
        /\ IF r.exc # NoneId
           THEN Unwind(t, r.exc, h1, tres)
           ELSE Continue(t, [f EXCEPT !.pc = "overrides", !.model = r.val],
                         r.heap, tres)

\* Lines 1428-1445: the nested _load_model(specs[0]) returned; its result is
\* stored under the model id, frozen when it is a ModelSet, and the
\* reference's result is taken from it
StoreReference(t) ==
  /\ stack[t] # <<>>
  /\ Top(t).pc = "store"
  /\ LET f == Top(t)
         mid == f.spec.ref.mid
         v == tret[t]
         h1 == IF v.k = "set"
               THEN [heap EXCEPT ![v.o] = ModelSet_freeze(heap[v.o])]
               ELSE heap
         r == SelectModel(h1, v, f.spec.ref)
     IN /\ models' = [m \in DOMAIN models \cup {mid} |->
                        IF m = mid THEN v ELSE models[m]]
        /\ nloaded' = [nloaded EXCEPT ![mid] = Min(nloaded[mid] + 1, MaxLoads)]
        /\ UNCHANGED nweights
        /\ IF r.exc # NoneId
           THEN Unwind(t, r.exc, h1, tres)
           ELSE Continue(t, [f EXCEPT !.pc = "overrides", !.model = r.val],
                         r.heap, tres)

\* Lines 1458-1466 and 1473: the next override is loaded, or the model is
\* returned when none is left
Overrides(t) ==
  /\ stack[t] # <<>>
  /\ Top(t).pc = "overrides"
  /\ UNCHANGED << models, nloaded, nweights >>
  /\ LET f == Top(t)
     IN IF f.i > Len(f.spec.overrides)
        THEN Return(t, f.model, heap)
        ELSE CallLoadModel(t, [f EXCEPT !.pc = "apply"],
                           EngineSpec(f.spec.overrides[f.i].ref), heap, tres)

\* Lines 1468-1471: the override's model is merged into the model with
\* update when it is a ModelSet, and assigned as an attribute otherwise
\* (an attribute assigned on a single component is not kept track of)
ApplyOverride(t) ==
  /\ stack[t] # <<>>
  /\ Top(t).pc = "apply"
  /\ UNCHANGED << models, nloaded, nweights >>
  /\ LET f == Top(t)
         name == f.spec.overrides[f.i].name
         v == tret[t]
         next == [f EXCEPT !.pc = "overrides", !.i = f.i + 1]
     IN IF v.k = "set"
        THEN IF f.model.k # "set"
             THEN Unwind(t, "AttributeError", heap, tres)
             ELSE LET r == ModelSet_update(heap[f.model.o], heap[v.o])
                  IN IF r.raised
                     THEN Unwind(t, "ValueError", heap, tres)
                     ELSE Continue(t, next,
                                   [heap EXCEPT ![f.model.o] = r.ms], tres)
        ELSE IF f.model.k = "set"
             THEN Continue(t, next,
                           [heap EXCEPT ![f.model.o] =
                              ModelSet_setattr(heap[f.model.o], name, v).ms],
                           tres)
             ELSE Continue(t, next, heap, tres)

\* Lines 1203-1259: an input of the mix was loaded; the next one is loaded,
\* or the inputs are checked and mixed. A mixed component is told apart by
\* the mix it belongs to and the load of its first input
Mix(t) ==
  /\ stack[t] # <<>>
  /\ Top(t).pc = "mixing"
  /\ UNCHANGED << models, nloaded, nweights >>
  /\ LET f == Top(t)
         s == f.spec
         acc == Append(f.acc, tret[t])
         keysets == [j \in 1..Len(acc) |-> DOMAIN heap[acc[j].o].dict]
     IN IF f.i < Len(s.inputs)
        THEN CallLoadModel(t, [f EXCEPT !.i = f.i + 1, !.acc = acc],
                           EngineSpec(s.inputs[f.i + 1]), heap, tres)
        ELSE IF \E j \in 1..Len(acc) : acc[j].k # acc[1].k
        THEN Unwind(t, "ValueError", heap, tres)
        ELSE IF acc[1].k = "set"
        THEN IF \E j \in 1..Len(acc) : keysets[j] # keysets[1]
             THEN Unwind(t, "ValueError", heap, tres)
             ELSE LET first == heap[acc[1].o].dict
                      new == ModelSet_init(
                               [key \in keysets[1] |->
                                  Component(s.model_id, key, first[key].g)])
                  IN Continue(t, [f EXCEPT !.pc = "overrides", !.acc = <<>>,
                                           !.model = SetVal(NewOid(heap))],
                              Alloc(heap, new), tres)
        ELSE Continue(t, [f EXCEPT !.pc = "overrides", !.acc = <<>>,
                                   !.model = Component(s.model_id, acc[1].n,
                                                       acc[1].g)],
                      heap, tres)

\* What a caller does to a ModelSet it holds
MutatingOps == {"update", "setitem", "setattr"}

\* A component the caller made itself
OwnComponent(t) == Component("caller", "vae", t)

\* The caller changes the ModelSet it received: update with a ModelSet of
\* its own, item assignment, or attribute assignment
Mutate(t, op) ==
  /\ tres[t].status = "returned"
  /\ tres[t].val.k = "set"
  /\ LET o == tres[t].val.o
         own == ModelSet_init([n \in {"vae"} |-> OwnComponent(t)])
         r == CASE op = "update" -> ModelSet_update(heap[o], own)
                [] op = "setitem" ->
                     ModelSet_setitem(heap[o], "vae", OwnComponent(t))
                [] op = "setattr" ->
                     ModelSet_setattr(heap[o], "vae", OwnComponent(t))
     IN /\ heap' = [heap EXCEPT ![o] = r.ms]
        /\ tres' = [tres EXCEPT ![t].op = op, ![t].opraised = r.raised]
  /\ UNCHANGED << models, stack, tret, nloaded, nweights >>

\* The references callers resolve: whole sets, components, filtered sets,
\* references that lead into a cycle, a disabled and an unknown model
TopRefs ==
  { Ref(m, NoneId, {}, {}) :
      m \in {"m1", "m2", "m4", "m5", "c1", "c3", "c4", "md", "zz"} }
  \cup { Ref("m1", "unet", {}, {}), Ref("m1", NoneId, {"unet"}, {}),
         Ref("m1", NoneId, {}, {"unet"}) }

othersUnchanged ==
  UNCHANGED << poolVars, loadVars, wrapperVars, pc, localVars, exc, directVars,
               resolveVars, loaderVars, fnVars, urlVars >>

\* Sequential execution: one caller at a time calls _load_model, and the
\* callers touch their results between the calls
Idle == \A t \in Threads : stack[t] = <<>>

InitM == ManagerInit /\ NoWrappers /\ NoDirectCall /\ NoResolution /\ NoLoad
         /\ NoReferences
         /\ NoFunction /\ NoUrlCalls

NextM ==
  \/ \E t \in Threads, r \in TopRefs :
       Idle /\ Resolve(t, EngineSpec(r)) /\ othersUnchanged
  \/ \E t \in Threads : LoadModel(t) /\ othersUnchanged
  \/ \E t \in Threads : StoreReference(t) /\ othersUnchanged
  \/ \E t \in Threads : Overrides(t) /\ othersUnchanged
  \/ \E t \in Threads : ApplyOverride(t) /\ othersUnchanged
  \/ \E t \in Threads : Mix(t) /\ othersUnchanged
  \/ \E t \in Threads, op \in MutatingOps :
       Idle /\ Mutate(t, op) /\ othersUnchanged

SpecM == InitM /\ [][NextM]_vars

\* A ModelSet used directly: built from keyword arguments, frozen, copied
\* and changed by the caller that holds it
DirectNew(t, names) ==
  /\ stack[t] = <<>>
  /\ tres' = [tres EXCEPT ![t] = [NoCall EXCEPT !.status = "returned",
                                                !.val = SetVal(NewOid(heap))]]
  /\ UNCHANGED << models, stack, tret, nloaded, nweights >>
  /\ Collect(Alloc(heap, ModelSet_init([n \in names |->
                                          Component("direct", n, 0)])))

DirectFreeze(t) ==
  /\ tres[t].status = "returned"
  /\ tres[t].val.k = "set"
  /\ heap' = [heap EXCEPT ![tres[t].val.o] = ModelSet_freeze(@)]
  /\ UNCHANGED << models, stack, tret, tres, nloaded, nweights >>

DirectCopy(t) ==
  /\ tres[t].status = "returned"
  /\ tres[t].val.k = "set"
  /\ tres' = [tres EXCEPT ![t] = [NoCall EXCEPT !.status = "returned",
                                                !.val = SetVal(NewOid(heap))]]
  /\ UNCHANGED << models, stack, tret, nloaded, nweights >>
  /\ Collect(Alloc(heap, ModelSet_copy(heap[tres[t].val.o])))

NextS ==
  \/ \E t \in Threads, names \in SUBSET ComponentNames :
       DirectNew(t, names) /\ othersUnchanged
  \/ \E t \in Threads : DirectFreeze(t) /\ othersUnchanged
  \/ \E t \in Threads : DirectCopy(t) /\ othersUnchanged
  \/ \E t \in Threads, op \in MutatingOps : Mutate(t, op) /\ othersUnchanged

SpecS == InitM /\ [][NextS]_vars

\* The references two threads resolve at the same time
ConcurrentRefs ==
  { Ref("m1", NoneId, {}, {}), Ref("m2", NoneId, {}, {}),
    Ref("m5", NoneId, {}, {}) }

\* A thread resolves its first reference
ResolveFirst(t, spec) ==
  /\ tres[t].status = "idle"
  /\ Resolve(t, spec)

\* Threads call _load_model with no lock around self._models: any thread
\* may take the next step. What the callers do to their results afterwards
\* is left out here
NextC ==
  \/ \E t \in Threads, r \in ConcurrentRefs :
       ResolveFirst(t, EngineSpec(r)) /\ othersUnchanged
  \/ \E t \in Threads : LoadModel(t) /\ othersUnchanged
  \/ \E t \in Threads : StoreReference(t) /\ othersUnchanged
  \/ \E t \in Threads : Overrides(t) /\ othersUnchanged
  \/ \E t \in Threads : ApplyOverride(t) /\ othersUnchanged
  \/ \E t \in Threads : Mix(t) /\ othersUnchanged

SpecC == InitM /\ [][NextC]_vars

\* ---------------------------------------------------------------------------
\* Functions called on their own, each on arguments drawn from a small set
\* ---------------------------------------------------------------------------

fnFrame ==
  UNCHANGED << fargs, poolVars, loadVars, wrapperVars, pc, localVars, exc,
               directVars, resolveVars, loaderVars, refVars, urlVars >>

\* The base model of a descriptor with overrides: what lines 1449-1456 loaded
BaseModel ==
  ModelSet_init([n \in ComponentNames \cup {"text_encoder"} |->
                   Component("base", n, 1)])

\* How an override is given: a weight path, "@ref/<key>", "@ref", or "@ref"
\* with the key as its whitelist
OverrideWays == {"weights", "submodule", "whole", "whitelisted"}

\* Lines 1461-1466: what _load_model returns for the override of key name.
\* The override's spec has type name (line 1465), so a weight path yields a
\* ModelSet with the one component name (lines 1357-1365); a submodule
\* reference yields the component (line 1433), a whole-set reference a copy
\* of the referenced ModelSet (line 1443) and a filtered one a new ModelSet
\* (lines 1434-1441)
override_model(name, way) ==
  LET referenced == ModelSet_freeze(
                      ModelSet_init([n \in ComponentNames |->
                                       Component("ref", n, 1)]))
  IN CASE way = "weights" ->
            [set |-> TRUE, comp |-> NoModel,
             ms |-> ModelSet_init([n \in {name} |-> Component("weights", n, 1)])]
       [] way = "submodule" ->
            [set |-> FALSE, comp |-> referenced.dict[name],
             ms |-> ModelSet_init(<<>>)]
       [] way = "whole" ->
            [set |-> TRUE, comp |-> NoModel, ms |-> ModelSet_copy(referenced)]
       [] way = "whitelisted" ->
            [set |-> TRUE, comp |-> NoModel,
             ms |-> ModelSet_init(
                      [n \in ModelSet_keys(referenced) \cap {name} |->
                         ModelSet_dict(referenced)[n]])]

\* An override that only ever replaces the component of its key
apply_override_KeyOnly(model, name, ov) ==
  IF ov.set
  THEN IF name \in DOMAIN ov.ms.dict
       THEN ModelSet_setattr(model, name, ov.ms.dict[name]).ms
       ELSE model
  ELSE ModelSet_setattr(model, name, ov.comp).ms

\* Lines 1468-1471: update with a ModelSet, attribute assignment otherwise
apply_override(model, name, ov) ==
  IF ov.set
  THEN ModelSet_update(model, ov.ms).ms
  ELSE ModelSet_setattr(model, name, ov.comp).ms

\* The overrides maps tried: one or two keys, each given in any of the ways
OverrideCalls ==
  { [fn |-> "_load_model", overrides |-> ov] :
      ov \in { << [name |-> n, way |-> w] >> :
                 n \in ComponentNames, w \in OverrideWays }
             \cup { << [name |-> "unet", way |-> w1],
                       [name |-> "vae", way |-> w2] >> :
                      w1 \in OverrideWays, w2 \in OverrideWays }
             \cup { << [name |-> "vae", way |-> w1],
                       [name |-> "unet", way |-> w2] >> :
                      w1 \in OverrideWays, w2 \in OverrideWays } }

\* Lines 1449-1473 for a descriptor with overrides: the base model is
\* loaded, then one override per step is loaded and applied, then the model
\* is returned
LoadOverrides ==
  /\ fargs.fn = "_load_model"
  /\ flocals.pc \in {"start", "overrides"}
  /\ flocals' =
       IF flocals.pc = "start"
       THEN [pc |-> "overrides", i |-> 1, model |-> BaseModel]
       ELSE IF flocals.i > Len(fargs.overrides)
       THEN [pc |-> "returned", i |-> flocals.i, model |-> flocals.model]
       ELSE LET o == fargs.overrides[flocals.i]
            IN [pc |-> "overrides", i |-> flocals.i + 1,
                model |-> apply_override(flocals.model, o.name,
                                         override_model(o.name, o.way))]
  /\ fnFrame

\* all_same of a list
all_same(xs) == \A i \in 1..Len(xs) : xs[i] = xs[1]

\* The shape of an elementwise operation on tensors of shapes s and t
\* (torch broadcasting: aligned from the last dimension, extents equal or 1),
\* or failure
Broadcast(s, t) ==
  LET n == IF Len(s) > Len(t) THEN Len(s) ELSE Len(t)
      at(x, i) == IF i + Len(x) - n >= 1 THEN x[i + Len(x) - n] ELSE 1
  IN IF \A i \in 1..n : at(s, i) = at(t, i) \/ at(s, i) = 1 \/ at(t, i) = 1
     THEN [ok |-> TRUE,
           shape |-> [i \in 1..n |-> IF at(s, i) = 1 THEN at(t, i)
                                     ELSE at(s, i)]]
     ELSE [ok |-> FALSE, shape |-> <<>>]

\* mix_method(alpha, *tensors) (lines 1113-1134): elementwise on two
\* tensors, or on three for mix_difference
mix_method(shapes) ==
  LET first == Broadcast(shapes[1], shapes[2])
  IN IF Len(shapes) = 2 \/ ~first.ok THEN first
     ELSE Broadcast(first.shape, shapes[3])

\* A slice that ends at the first input's extent in dimension 1
dim1_slice_First(shapes) == shapes[1][2]

\* Line 1157: slice(0, shapes[1][1]), given by its end
dim1_slice(shapes) == shapes[2][2]

\* The tensor shapes of one parameter key in the models that are mixed
MixShapes ==
  { <<4, 9, 64, 64>>, <<4, 4, 64, 64>>, <<4, 5, 64, 64>>, <<4, 5, 32, 32>>,
    <<4, 1, 64, 64>>, <<8, 4, 64, 64>>, <<4, 9>>, <<4, 4>> }

MixCalls ==
  { [fn |-> "_mix_models", shapes |-> << a, b >>] :
      a \in MixShapes, b \in MixShapes }
  \cup { [fn |-> "_mix_models", shapes |-> << a, b, c >>] :
           a \in MixShapes, b \in MixShapes, c \in MixShapes }

\* Lines 1140-1166, the body of the loop of _mix_models for one key: the
\* outcome, the shape of the mix, and the end of the range of dimension 1
\* that was mixed (0: all of the tensor)
_mix_models(shapes) ==
  LET neqidx == { i \in 1..Min(Len(shapes[1]), Len(shapes[2])) :
                    shapes[1][i] # shapes[2][i] }
      end == dim1_slice(shapes)
      first == shapes[1]
      sliced == [first EXCEPT ![2] = Min(end, first[2])]
      dim1_mix == mix_method(<< sliced >> \o Tail(shapes))
  IN IF all_same(shapes)
     THEN [status |-> "returned", shape |-> first, mixed |-> 0]
     ELSE IF all_same(Tail(shapes)) /\ neqidx = {2}
     THEN IF Len(first) < 4
          THEN [status |-> "IndexError", shape |-> <<>>, mixed |-> 0]
          ELSE IF ~dim1_mix.ok
          THEN [status |-> "RuntimeError", shape |-> <<>>, mixed |-> 0]
          ELSE IF ~Broadcast(sliced, dim1_mix.shape).ok
                  \/ Broadcast(sliced, dim1_mix.shape).shape # sliced
          THEN [status |-> "RuntimeError", shape |-> <<>>, mixed |-> 0]
          ELSE [status |-> "returned", shape |-> first, mixed |-> sliced[2]]
     ELSE [status |-> "ValueError", shape |-> <<>>, mixed |-> 0]

\* _mix_models is called for one key
MixKey ==
  /\ fargs.fn = "_mix_models"
  /\ flocals.pc = "start"
  /\ flocals' = [pc |-> "done", out |-> _mix_models(fargs.shapes)]
  /\ fnFrame


\* Widths tried by one autodetection
MaxWidths == 3

\* --- BatchMode.batchmax (lines 147-166) ---

\* Python floats are IEEE doubles: 53 significant binary digits
MantissaBits == 53

\* Binary digits kept after the point of a number written [int, frac]
FracBits == 64

RECURSIVE bit_length(_)
bit_length(n) == IF n = 0 THEN 0 ELSE 1 + bit_length(n \div 2)

RECURSIVE quotient_bits(_, _, _)
\* The first n >= 1 binary digits after the point of r / b (0 <= r < b),
\* and the remainder left after them
quotient_bits(r, b, n) ==
  IF n = 1 THEN [bits |-> << (2 * r) \div b >>, rem |-> (2 * r) % b]
  ELSE LET high == quotient_bits(r, b, n \div 2)
           low == quotient_bits(high.rem, b, n - n \div 2)
       IN \* the high half first: its remainder goes into the low half
          CASE high.rem >= 0 ->
                 [bits |-> high.bits \o low.bits, rem |-> low.rem]

RECURSIVE mul_bits(_, _, _)
\* The binary digits after the point times the integer m plus the carry c
\* from below, and the carry into the integer part
mul_bits(bits, m, c) ==
  IF Len(bits) = 1
  THEN [bits |-> << (bits[1] * m + c) % 2 >>, carry |-> (bits[1] * m + c) \div 2]
  ELSE LET h == Len(bits) \div 2
           low == mul_bits(SubSeq(bits, h + 1, Len(bits)), m, c)
           high == mul_bits(SubSeq(bits, 1, h), m, low.carry)
       IN \* the low half first: its carry goes into the high half
          CASE low.carry >= 0 ->
                 [bits |-> high.bits \o low.bits, carry |-> high.carry]

\* Round-to-nearest-even of the non-negative number x (with more digits
\* below it when inexact) to MantissaBits significant digits
float_round(x, inexact) ==
  LET ones == {j \in 1..FracBits : x.frac[j] = 1}
      k == IF ones = {} THEN 0 ELSE CHOOSE j \in ones : \A o \in ones : j <= o
      keep == IF x.int > 0 THEN MantissaBits - bit_length(x.int)
                           ELSE k + MantissaBits - 1
      lsb == IF keep = 0 THEN x.int % 2 ELSE x.frac[keep]
      sticky == inexact \/ \E j \in ones : j > keep + 1
      trunc == [j \in 1..FracBits |-> IF j <= keep THEN x.frac[j] ELSE 0]
      zeros == {j \in 1..keep : x.frac[j] = 0}
      z == IF zeros = {} THEN 0 ELSE CHOOSE j \in zeros : \A o \in zeros : o <= j
  IN IF (x.int = 0 /\ ones = {}) \/ keep >= FracBits THEN x
     ELSE IF x.frac[keep + 1] = 1 /\ (sticky \/ lsb = 1)
     THEN [int |-> IF z = 0 THEN x.int + 1 ELSE x.int,
           frac |-> [j \in 1..FracBits |->
                       IF j < z THEN x.frac[j] ELSE IF j = z THEN 1 ELSE 0]]
     ELSE [int |-> x.int, frac |-> trunc]

\* a / b for integers 0 <= a, 0 < b (line 161)
float_div(a, b) ==
  LET q == quotient_bits(a % b, b, FracBits)
  IN float_round([int |-> a \div b, frac |-> q.bits], q.rem # 0)

\* x * m for a float x >= 0 and an integer m >= 0
float_mul(x, m) ==
  LET p == mul_bits(x.frac, m, 0)
  IN float_round([int |-> x.int * m + p.carry, frac |-> p.bits], FALSE)

\* y - x for an integer y and a float x with 0 <= x <= y
float_rsub(y, x) ==
  LET ones == {j \in 1..FracBits : x.frac[j] = 1}
      last == CHOOSE j \in ones : \A o \in ones : o <= j
  IN IF ones = {} THEN [int |-> y - x.int, frac |-> x.frac]
     ELSE float_round([int |-> y - x.int - 1,
                       frac |-> [j \in 1..FracBits |->
                                   IF j < last THEN 1 - x.frac[j] ELSE x.frac[j]]],
                      FALSE)

\* math.floor(y0 + i * (y1 - y0)) with i = a / b (lines 161-162)
interpolate(y0, y1, a, b) ==
  LET i == float_div(a, b)
  IN IF y1 >= y0
     THEN LET t == float_mul(i, y1 - y0)
          IN float_round([int |-> y0 + t.int, frac |-> t.frac], FALSE).int
     ELSE float_rsub(y0, float_mul(i, y0 - y1)).int

\* self.simplemax is << >> for None and << m >> for the number m
batchmax(self, pixels) ==
  LET points == self.points
      pairs == {j \in 1..(Len(points) - 1) :
                  pixels >= points[j][1] /\ pixels <= points[j + 1][1]}
      pair == CHOOSE j \in pairs : \A o \in pairs : j <= o
  IN IF points # << >>
     THEN IF pixels <= points[1][1] THEN points[1][2]
          ELSE IF pairs # {}
          THEN interpolate(points[pair][2], points[pair + 1][2],
                           pixels - points[pair][1],
                           points[pair + 1][1] - points[pair][1])
          ELSE 1
     ELSE IF self.simplemax # << >> THEN self.simplemax[1] ELSE 1

\* Calls of batchmax: breakpoint lists sorted ascending by pixel count, each
\* with pixel counts below, between and above its breakpoints, and no
\* breakpoints with simplemax None or a number
BatchmaxCalls ==
  LET BatchPoints ==
        { << <<262144, 16>>, <<1048576, 4>> >> }
        \cup { << <<0, y0>>, <<dx, y1>> >> :
                 dx \in {22, 25}, y0 \in {1, 4, 26}, y1 \in {1, 4, 23} }
        \cup { << <<0, 16>>, <<4, 8>>, <<8, 8>>, <<12, 1>> >> }
      BatchPixels(points) ==
        IF points[1][1] = 0 THEN 0..(points[Len(points)][1] + 1)
        ELSE {100000, 262144, 458752, 655360, 1048576, 2000000}
  IN UNION { { [fn |-> "batchmax",
                self |-> [points |-> p, simplemax |-> << 1 >>],
                pixels |-> x] : x \in BatchPixels(p) } : p \in BatchPoints }
     \cup { [fn |-> "batchmax", self |-> [points |-> << >>, simplemax |-> m],
             pixels |-> 262144] : m \in {<< >>, << 1 >>, << 4 >>} }

\* batchmax is called
Batchmax ==
  /\ fargs.fn = "batchmax"
  /\ flocals.pc = "start"
  /\ flocals' = [pc |-> "done", out |-> batchmax(fargs.self, fargs.pixels)]
  /\ fnFrame

\* --- BatchMode.run_autodetect (lines 168-217) ---

\* Calls of run_autodetect: resmax and resstep, and for each width tried the
\* largest batch size whose generation does not raise (maxima[j] for the
\* j-th width); maxima << >> is a device on which any generation call may
\* raise or not, whatever the other calls did
AutodetectCalls ==
  { [fn |-> "run_autodetect", resmax |-> 512 + n * 256, resstep |-> 256,
     maxima |-> m] :
      n \in 1..MaxWidths,
      m \in [1..MaxWidths -> {1, 2, 3, 7, 8, 31, 32, 40}] \cup {<< >>} }

\* The for statement seeding every search with 32 again
AutodetectFor_SeedFixed ==
  /\ fargs.fn = "run_autodetect"
  /\ flocals.pc \in {"start", "for"}
  /\ LET first == flocals.pc = "start"
         x == IF first THEN 512 ELSE flocals.x + fargs.resstep
         pixels == IF first THEN << >> ELSE flocals.pixels
         batchmax_ == IF first THEN << >> ELSE flocals.batchmax
     IN flocals' =
          IF x < fargs.resmax
          THEN [pc |-> "while", x |-> x, r |-> 32, l |-> 1,
                pixels |-> pixels, batchmax |-> batchmax_]
          ELSE [pc |-> "done",
                points |-> [j \in 1..Len(pixels) |-> << pixels[j], batchmax_[j] >>]]
  /\ fnFrame

\* The for statement of line 187: the first or next width, or the end of the
\* range and lines 212-217
AutodetectFor ==
  /\ fargs.fn = "run_autodetect"
  /\ flocals.pc \in {"start", "for"}
  /\ LET first == flocals.pc = "start"
         x == IF first THEN 512 ELSE flocals.x + fargs.resstep
         l == IF first THEN 32 ELSE flocals.l
         pixels == IF first THEN << >> ELSE flocals.pixels
         batchmax_ == IF first THEN << >> ELSE flocals.batchmax
     IN flocals' =
          IF x < fargs.resmax
          THEN [pc |-> "while", x |-> x, r |-> l, l |-> 1,
                pixels |-> pixels, batchmax |-> batchmax_]
          ELSE [pc |-> "done",
                points |-> [j \in 1..Len(pixels) |-> << pixels[j], batchmax_[j] >>]]
  /\ fnFrame

\* One turn of the binary search (lines 194-203): generation with batch size
\* b raises (ok is FALSE) or not; with maxima it raises exactly when b is
\* above the maximum of this width
AutodetectTry(ok) ==
  /\ fargs.fn = "run_autodetect"
  /\ flocals.pc = "while"
  /\ flocals.l < flocals.r - 1
  /\ LET b == (flocals.l + flocals.r) \div 2
     IN /\ fargs.maxima # << >> =>
             (ok <=> b <= fargs.maxima[Len(flocals.pixels) + 1])
        /\ flocals' = IF ok
                      THEN [flocals EXCEPT !.l = b]
                      ELSE [flocals EXCEPT !.r = b]
  /\ fnFrame

\* The search is over (lines 205-212): the width's pixels and l are recorded,
\* and l = 1 ends the loop
AutodetectRecord ==
  /\ fargs.fn = "run_autodetect"
  /\ flocals.pc = "while"
  /\ ~(flocals.l < flocals.r - 1)
  /\ LET pixels == Append(flocals.pixels, flocals.x * 512)
         batchmax_ == Append(flocals.batchmax, flocals.l)
     IN flocals' =
          IF flocals.l = 1
          THEN [pc |-> "done",
                points |-> [j \in 1..Len(pixels) |-> << pixels[j], batchmax_[j] >>]]
          ELSE [flocals EXCEPT !.pc = "for", !.pixels = pixels,
                               !.batchmax = batchmax_]
  /\ fnFrame

\* --- EngineSpec.__init__, is_engine, is_model (lines 523-541) ---

\* Keys of one configuration record
MaxKeys == 3

\* Configuration records: a dict is its keys in insertion order, each with a
\* value
EngineSpecCalls ==
  LET Keys == {"id", "ID", "model_id", "Model_ID", "type", "Type"}
      Items == Keys \X {"v1", "v2"}
  IN { [fn |-> "EngineSpec", data |-> d] :
         d \in { q \in UNION { [1..n -> Items] : n \in 0..MaxKeys } :
                   \A i, j \in DOMAIN q : q[i][1] = q[j][1] => i = j } }

EngineSpec_init_KeepCase(data) ==
  [_data |-> [k \in {data[i][1] : i \in DOMAIN data} |->
                data[CHOOSE i \in DOMAIN data : data[i][1] = k][2]]]

\* self._data = {k.lower(): v for k, v in data.items()}: of the items whose
\* keys lower to the same key the last one stays
EngineSpec_init(data) ==
  LET lower(k) == CASE k \in {"id", "ID"} -> "id"
                    [] k \in {"model_id", "Model_ID"} -> "model_id"
                    [] k \in {"type", "Type"} -> "type"
      last(k) == CHOOSE i \in DOMAIN data :
                   /\ lower(data[i][1]) = k
                   /\ \A j \in DOMAIN data : lower(data[j][1]) = k => j <= i
  IN [_data |-> [k \in {lower(data[i][1]) : i \in DOMAIN data} |->
                   data[last(k)][2]]]

\* "id" in self._data
EngineSpec_is_engine(self) == "id" \in DOMAIN self._data

\* "model_id" in self._data
EngineSpec_is_model(self) == "model_id" \in DOMAIN self._data

\* An EngineSpec is built from a record
NewEngineSpec ==
  /\ fargs.fn = "EngineSpec"
  /\ flocals.pc = "start"
  /\ flocals' = [pc |-> "done", self |-> EngineSpec_init(fargs.data)]
  /\ fnFrame

\* --- ProgressBarWrapper.InternalTqdm.__iter__ (lines 68-96) ---

\* Steps of one generation
MaxSteps == 3

\* Calls of __iter__: the steps of the wrapped iterable, whether the caller
\* supplied a stop event, and whether it is set already
IterCalls ==
  { [fn |-> "__iter__", iterable |-> [j \in 1..n |-> j], stop_event |-> e[1],
     is_set |-> e[2]] :
      n \in 0..MaxSteps,
      e \in {<< "None", FALSE >>, << "Event", FALSE >>, << "Event", TRUE >>} }

InternalTqdm_iter_NoCheck ==
  /\ fargs.fn = "__iter__"
  /\ flocals.pc \in {"start", "yield"}
  /\ LET it == IF flocals.pc = "start"
               THEN [pc |-> "yield", taken |-> 0, yielded |-> << >>,
                     is_set |-> fargs.is_set, description |-> ""]
               ELSE flocals
     IN flocals' =
          IF it.taken = Len(fargs.iterable)
          THEN [it EXCEPT !.pc = "returned"]
          ELSE [it EXCEPT !.taken = @ + 1,
                          !.yielded = Append(@, fargs.iterable[it.taken + 1])]
  /\ fnFrame

\* The generator runs up to its next yield or its end (lines 80-85): it takes
\* the next step of the wrapped iterable, checks the stop event, and yields
\* the step or breaks
InternalTqdm_iter ==
  /\ fargs.fn = "__iter__"
  /\ flocals.pc \in {"start", "yield"}
  /\ LET it == IF flocals.pc = "start"
               THEN [pc |-> "yield", taken |-> 0, yielded |-> << >>,
                     is_set |-> fargs.is_set, description |-> ""]
               ELSE flocals
     IN flocals' =
          IF it.taken = Len(fargs.iterable)
          THEN [it EXCEPT !.pc = "returned"]
          ELSE IF fargs.stop_event # "None" /\ it.is_set
          THEN [it EXCEPT !.pc = "returned", !.taken = @ + 1,
                          !.description = "ABORTED"]
          ELSE [it EXCEPT !.taken = @ + 1,
                          !.yielded = Append(@, fargs.iterable[it.taken + 1])]
  /\ fnFrame

\* Another thread sets the stop event the caller supplied
StopEventSet ==
  /\ fargs.fn = "__iter__"
  /\ fargs.stop_event # "None"
  /\ flocals.pc = "yield"
  /\ ~flocals.is_set
  /\ flocals' = [flocals EXCEPT !.is_set = TRUE]
  /\ fnFrame

\* --- _delay (lines 255-256, 339-350) with EngineMode (lines 119-137) ---

\* VRAM optimisation levels configured
MaxLevel == 6

\* Calls of activate: the wrapper's class and mode, and the classes of the
\* modules of its pipeline
DelayCalls ==
  LET Modules ==
        [unet |-> "UNet2DConditionModel", inpaint_unet |-> "UNet2DConditionModel",
         vae |-> "AutoencoderKL", text_encoder |-> "CLIPTextModel",
         clip_model |-> "CLIPModel"]
      NoClip ==
        [unet |-> "UNet2DConditionModel", vae |-> "AutoencoderKL",
         text_encoder |-> "CLIPTextModel"]
  IN { [fn |-> "activate", class |-> c, mode |-> [device |-> d, vramO |-> o],
        modules |-> m] :
         c \in {"PipelineWrapper", "GeneratePipelineWrapper"},
         d \in {"cuda", "mps", "cpu"}, o \in 0..MaxLevel, m \in {Modules, NoClip} }

_delay_UnetOnly(class, mode, module) ==
  /\ class = "GeneratePipelineWrapper"
  /\ mode.device = "cuda" /\ mode.vramO > 2
  /\ module = "UNet2DConditionModel"

\* self._delay(name, module) of a wrapper of the class with the mode, for a
\* module of the given class
_delay(class, mode, module) ==
  LET unet_exclusion == mode.device = "cuda" /\ mode.vramO > 2
      allexceptclip_exclusion == mode.device = "cuda" /\ mode.vramO > 3
      all_exclusion == mode.device = "cuda" /\ mode.vramO > 4
  IN IF class = "GeneratePipelineWrapper"
     THEN IF all_exclusion THEN TRUE
          ELSE IF allexceptclip_exclusion THEN module # "CLIPModel"
          ELSE IF unet_exclusion THEN module = "UNet2DConditionModel"
          ELSE FALSE
     ELSE FALSE

\* activate (lines 258-274) clones every module of the pipeline, those that
\* _delay names with the exclusion set
ActivateDelays ==
  /\ fargs.fn = "activate"
  /\ flocals.pc = "start"
  /\ flocals' = [pc |-> "done",
                 excluded |-> {name \in DOMAIN fargs.modules :
                                 _delay(fargs.class, fargs.mode,
                                        fargs.modules[name])}]
  /\ fnFrame

\* --- _get_hf_path with local_only False (lines 703-858) ---

\* Calls of _get_hf_path: the files of the repository (a path is its
\* directory, stem, "." and extension), what is_safetensors_compatible
\* answers, spec.safe_only and the subfolder
HfPathCalls ==
  LET Files == { << "a", ".", "ckpt" >>, << "a", ".", "safetensors" >>,
                 << "b", ".", "bin" >>, << "b", ".", "safetensors" >>,
                 << "c", ".", "pt" >>, << "d", ".", "msgpack" >>,
                 << "unet/", "a", ".", "ckpt" >>,
                 << "unet/", "a", ".", "safetensors" >>,
                 << "unet/", "b", ".", "bin" >> }
  IN { [fn |-> "_get_hf_path", siblings |-> fs, compatible |-> c,
        safe_only |-> so, subfolder |-> sf] :
         fs \in SUBSET Files, c \in BOOLEAN, so \in BOOLEAN,
         sf \in {<< >>, << "unet/" >>} }

filter_repo_objects_AllowOnly(items, allow_patterns, ignore_patterns) ==
  {f \in items : allow_patterns = {} \/ \E q \in allow_patterns : Glob(f, q)}

\* huggingface_hub.utils.filter_repo_objects (line 768), which
\* snapshot_download applies to the repository's files too
filter_repo_objects(items, allow_patterns, ignore_patterns) ==
  {f \in items :
     /\ allow_patterns = {} \/ \E q \in allow_patterns : Glob(f, q)
     /\ ~\E q \in ignore_patterns : Glob(f, q)}

_get_hf_path_NeverSafetensors(siblings, compatible, safe_only, subfolder) ==
  [status |-> "returned", use |-> "bin", ignore_patterns |-> {},
   allow_patterns |-> {}, download |-> siblings]

\* The spec has no ignore_patterns, allow_patterns or fp16 revision
_get_hf_path(siblings, compatible, safe_only, subfolder) ==
  LET allow_patterns == IF subfolder # << >> THEN {subfolder \o << "*" >>} ELSE {}
      repo_files == filter_repo_objects(siblings, allow_patterns, {})
      grouped(ext) ==
        {SubSeq(f, 1, Len(f) - 2) : f \in {g \in repo_files : g[Len(g)] = ext}}
      has_ckpt == grouped("ckpt") # {}
      has_bin == grouped("bin") # {}
      has_pt == grouped("pt") # {}
      has_safe == grouped("safetensors") # {}
      extensions == {"ckpt", "bin", "pt", "safetensors", "msgpack", "h5"}
      use == IF safe_only THEN "safetensors"
             ELSE IF has_bin
             THEN IF has_safe /\ compatible THEN "safetensors" ELSE "bin"
             ELSE IF has_safe THEN "safetensors"
             ELSE IF has_pt THEN "pt"
             ELSE IF has_ckpt THEN "ckpt"
             ELSE "None"
      matching ==
        IF ~safe_only /\ has_bin /\ has_safe /\ compatible /\ has_ckpt
        THEN {file \o << ".", "safetensors" >> :
                file \in grouped("ckpt") \cap grouped("safetensors")}
        ELSE {}
      ignore_patterns ==
        matching \cup {subfolder \o << "*", ".", extension >> :
                         extension \in extensions \ {use}}
  IN IF use = "None"
     THEN [status |-> "ValueError", use |-> "None", ignore_patterns |-> {},
           allow_patterns |-> {}, download |-> {}]
     ELSE [status |-> "returned", use |-> use,
           ignore_patterns |-> ignore_patterns,
           allow_patterns |-> allow_patterns,
           download |-> filter_repo_objects(siblings, allow_patterns,
                                            ignore_patterns)]

\* _get_hf_path is called with local_only False
GetHfPath ==
  /\ fargs.fn = "_get_hf_path"
  /\ flocals.pc = "start"
  /\ flocals' = [pc |-> "done",
                 out |-> _get_hf_path(fargs.siblings, fargs.compatible,
                                      fargs.safe_only, fargs.subfolder)]
  /\ fnFrame

\* --- JSONAPIController (http/json_api_controller.py, lines 24-86) ---

\* Media types and media ranges are (type, subtype) pairs
preferred_return_type == << "application", "json" >>

return_types == { << "application", "json" >> }

\* A media range of an Accept header matches a type: * stands for anything
media_matches(range, type) ==
  /\ range[1] = "*" \/ range[1] = type[1]
  /\ range[2] = "*" \/ range[2] = type[2]

\* get_best_match(accept_header, [preferred_return_type] + list(return_types)):
\* the header is its media ranges, most preferred first; the first range that
\* matches a served type decides, the preferred type before the others;
\* << >> is None
get_best_match(header, preferred, others) ==
  LET served(r) == {t \in {preferred} \cup others : media_matches(r, t)}
      hits == {i \in DOMAIN header : served(header[i]) # {}}
  IN IF hits = {} THEN << >>
     ELSE LET first == CHOOSE i \in hits : \A j \in hits : i <= j
          IN IF media_matches(header[first], preferred) THEN preferred
             ELSE CHOOSE t \in served(header[first]) : TRUE

\* int(e.status): the status of a web error is the digits of an HTTP status
\* code (twisted keeps it as bytes), most significant first
RECURSIVE int(_)
int(digits) ==
  IF digits = << >> THEN 0
  ELSE 10 * int(SubSeq(digits, 1, Len(digits) - 1)) + digits[Len(digits)]

\* What a render method gives back to the server: the page or body it
\* returned with the response code set on the request, or the exception it
\* let through; invoked tells whether the handler was called
Rendered(out, code, invoked) ==
  [out |-> out, code |-> code, invoked |-> invoked, raised |-> NoneId]

\* _render_common letting the exceptions of the handler through
_render_common_NoCatch(request, handler, input) ==
  IF ~handler THEN Rendered("NoResource", 404, FALSE)
  ELSE LET return_type ==
             IF request.accept # << >>
             THEN get_best_match(request.accept, preferred_return_type,
                                 return_types)
             ELSE << >>
       IN IF return_type = << >>
          THEN Rendered("NotAcceptableResource", 416, FALSE)
          ELSE IF request.handles.raises # NoneId
          THEN [out |-> NoneId, code |-> 200, invoked |-> TRUE,
                raised |-> request.handles.raises]
          ELSE IF request.handles.returns = "NOT_DONE_YET"
          THEN Rendered("NOT_DONE_YET", 200, TRUE)
          ELSE Rendered("body", 200, TRUE)

\* Lines 28-73: no handler gives NoResource (404); an Accept header that is
\* missing, empty or matches no served type gives NotAcceptableResource
\* (which sets 416); then the handler is called, its ValueError becomes an
\* ErrorPage 400, its WebError an ErrorPage of int(e.status), any other
\* Exception an ErrorPage 500; what it returns is sent as the body
_render_common(request, handler, input) ==
  IF ~handler THEN Rendered("NoResource", 404, FALSE)
  ELSE LET return_type ==
             IF request.accept # << >>
             THEN get_best_match(request.accept, preferred_return_type,
                                 return_types)
             ELSE << >>
       IN IF return_type = << >>
          THEN Rendered("NotAcceptableResource", 416, FALSE)
          ELSE IF request.handles.raises = "ValueError"
          THEN Rendered("ErrorPage", 400, TRUE)
          ELSE IF request.handles.raises = "WebError"
          THEN Rendered("ErrorPage", int(request.handles.status), TRUE)
          ELSE IF request.handles.raises # NoneId
          THEN Rendered("ErrorPage", 500, TRUE)
          ELSE IF request.handles.returns = "NOT_DONE_YET"
          THEN Rendered("NOT_DONE_YET", 200, TRUE)
          ELSE Rendered("body", 200, TRUE)

\* Lines 75-77
render_GET(request) == _render_common(request, request.handler, NoneId)

\* Lines 79-86: the Content-Type must be exactly application/json; the body
\* is parsed (json.load raises on a body that is no JSON) before
\* _render_common is called
render_POST(request) ==
  IF request.content_type # "application/json"
  THEN Rendered("UnsupportedMediaTypeResource", 415, FALSE)
  ELSE IF ~request.json
  THEN [out |-> NoneId, code |-> 200, invoked |-> FALSE,
        raised |-> "JSONDecodeError"]
  ELSE _render_common(request, request.handler, "input")

\* Requests: the method, the media ranges of the Accept header (<< >>: no
\* header or an empty one), the Content-Type header (NoneId: none), whether
\* the controller has a handler for the method, whether the body is JSON,
\* and what the handler does when it is called
RenderCalls ==
  LET Ranges == { << "application", "json" >>, << "application", "*" >>,
                  << "*", "*" >>, << "text", "html" >> }
      Returns == { [raises |-> NoneId, status |-> << >>, returns |-> r] :
                     r \in {"dict", "str", "bytes", "NOT_DONE_YET"} }
      Raises == { [raises |-> "ValueError", status |-> << >>,
                   returns |-> NoneId],
                  [raises |-> "WebError", status |-> << 4, 0, 4 >>,
                   returns |-> NoneId],
                  [raises |-> "WebError", status |-> << 5, 0, 3 >>,
                   returns |-> NoneId],
                  [raises |-> "KeyError", status |-> << >>,
                   returns |-> NoneId] }
  IN { [fn |-> "render", request |-> q] :
         q \in [method : {"GET", "POST"},
                accept : UNION { [1..n -> Ranges] : n \in 0..2 },
                content_type : {NoneId, "application/json", "text/plain",
                                "application/json; charset=utf-8"},
                handler : BOOLEAN,
                json : BOOLEAN,
                handles : Returns \cup Raises] }

\* The server calls render_GET or render_POST for the request
Render ==
  /\ fargs.fn = "render"
  /\ flocals.pc = "start"
  /\ flocals' = [pc |-> "done",
                 response |-> IF fargs.request.method = "GET"
                              THEN render_GET(fargs.request)
                              ELSE render_POST(fargs.request)]
  /\ fnFrame

FunctionCalls ==
  OverrideCalls \cup MixCalls \cup BatchmaxCalls \cup AutodetectCalls
  \cup EngineSpecCalls \cup IterCalls
  \cup DelayCalls \cup HfPathCalls \cup RenderCalls

InitF ==
  /\ ManagerInit /\ NoWrappers /\ NoDirectCall /\ NoResolution /\ NoLoad
  /\ NoReferences
  /\ fargs \in FunctionCalls
  /\ flocals = [pc |-> "start"]
  /\ NoUrlCalls

NextF ==
  \/ LoadOverrides
  \/ MixKey
  \/ Batchmax
  \/ AutodetectFor
  \/ \E ok \in BOOLEAN : AutodetectTry(ok)
  \/ AutodetectRecord
  \/ NewEngineSpec
  \/ InternalTqdm_iter
  \/ StopEventSet
  \/ ActivateDelays
  \/ GetHfPath
  \/ Render

SpecF == InitF /\ [][NextF]_vars

\* run_autodetect runs in one thread that is not blocked: it takes its next
\* step (every generation call returns or raises)
FairAutodetect ==
  /\ WF_vars(AutodetectFor)
  /\ WF_vars(\E ok \in BOOLEAN : AutodetectTry(ok))
  /\ WF_vars(AutodetectRecord)

SpecA == InitF /\ [][NextF]_vars /\ FairAutodetect

\* ---------------------------------------------------------------------------
\* _get_url_path (lines 888-937): threads resolving one group of URLs
\* ---------------------------------------------------------------------------

\* Chunks http_get writes for one file
FileChunks == 2

\* The names of spec.urls, in the order of the dict
UrlNames == << "f1", "f2" >>

urlFrame ==
  UNCHANGED << poolVars, loadVars, wrapperVars, pc, localVars, exc, directVars,
               resolveVars, loaderVars, refVars, fnVars >>

\* Chunks of the file cache_path/name (-1: no such file)
Stored(name) == IF name \in DOMAIN disk.final THEN disk.final[name] ELSE -1

\* A thread calls _get_url_path
UrlCall(t) ==
  /\ ucalls[t].pc = "idle"
  /\ \E local_only \in BOOLEAN :
       ucalls' = [ucalls EXCEPT ![t] = [NoUrlCall EXCEPT !.pc = "isdir",
                                           !.local_only = local_only]]
  /\ UNCHANGED disk
  /\ urlFrame

\* Lines 903-915: os.path.isdir(cache_path), then os.path.isfile for every
\* name, one after the other; the call returns when all exist, and raises
\* ValueError under local_only
UrlLookup(t) ==
  LET c == ucalls[t]
      n == Len(UrlNames)
      found == Stored(UrlNames[c.i]) # -1
      missing == IF found THEN c.missing ELSE c.missing \cup {UrlNames[c.i]}
  IN /\ \/ /\ c.pc = "isdir"
           /\ ucalls' = [ucalls EXCEPT ![t] =
                IF "cache" \in disk.dirs THEN [c EXCEPT !.pc = "isfile", !.i = 1]
                ELSE IF c.local_only
                THEN [c EXCEPT !.pc = "done", !.out = "ValueError"]
                ELSE [c EXCEPT !.pc = "makedirs"]]
        \/ /\ c.pc = "isfile"
           /\ ucalls' = [ucalls EXCEPT ![t] =
                IF c.i < n THEN [c EXCEPT !.i = @ + 1, !.missing = missing]
                ELSE IF missing = {}
                THEN [c EXCEPT !.pc = "done", !.out = "returned"]
                ELSE IF c.local_only
                THEN [c EXCEPT !.pc = "done", !.out = "ValueError",
                               !.missing = missing]
                ELSE [c EXCEPT !.pc = "makedirs", !.missing = missing]]
     /\ UNCHANGED disk
     /\ urlFrame

\* Lines 917-918: os.makedirs of the cache path, then of the temp path
UrlMakedirs(t) ==
  LET c == ucalls[t]
  IN /\ c.pc \in {"makedirs", "makedirs_temp"}
     /\ disk' = [disk EXCEPT !.dirs =
                   @ \cup {IF c.pc = "makedirs" THEN "cache" ELSE "temp"}]
     /\ ucalls' = [ucalls EXCEPT ![t] =
          IF c.pc = "makedirs" THEN [c EXCEPT !.pc = "makedirs_temp"]
          ELSE [c EXCEPT !.pc = "for", !.i = 1]]
     /\ urlFrame

\* Lines 920-927 and 935: the next name of the loop: a file that exists is
\* skipped, for another a temporary file is created in the temp path; after
\* the last name the call returns
UrlNextName(t) ==
  LET c == ucalls[t]
  IN /\ c.pc = "for"
     /\ IF c.i > Len(UrlNames)
        THEN /\ ucalls' = [ucalls EXCEPT ![t] =
                             [c EXCEPT !.pc = "done", !.out = "returned"]]
             /\ UNCHANGED disk
        ELSE IF Stored(UrlNames[c.i]) # -1
        THEN /\ ucalls' = [ucalls EXCEPT ![t] = [c EXCEPT !.i = @ + 1]]
             /\ UNCHANGED disk
        ELSE /\ disk' = [disk EXCEPT !.temps = Append(@, 0)]
             /\ ucalls' = [ucalls EXCEPT ![t] =
                  [c EXCEPT !.pc = "http_get", !.temp = Len(disk.temps) + 1]]
     /\ urlFrame

\* Line 928: http_get writes the next chunk to the temporary file; after the
\* last chunk the file is closed and its name kept
HttpGet(t) ==
  LET c == ucalls[t]
  IN /\ c.pc = "http_get"
     /\ disk.temps[c.temp] < FileChunks
     /\ disk' = [disk EXCEPT !.temps[c.temp] = @ + 1]
     /\ ucalls' = [ucalls EXCEPT ![t] =
          IF disk.temps[c.temp] + 1 = FileChunks THEN [c EXCEPT !.pc = "replace"]
          ELSE c]
     /\ urlFrame

HttpGetRaises_KeepsFile(t) ==
  LET c == ucalls[t]
  IN /\ c.pc = "http_get"
     /\ disk.temps[c.temp] < FileChunks
     /\ disk' = [disk EXCEPT
                   !.final = [x \in DOMAIN @ \cup {UrlNames[c.i]} |->
                                IF x = UrlNames[c.i] THEN disk.temps[c.temp]
                                ELSE @[x]],
                   !.temps[c.temp] = -1]
     /\ ucalls' = [ucalls EXCEPT ![t] =
                     [c EXCEPT !.pc = "done", !.out = "HTTPError"]]
     /\ urlFrame

\* Line 928: http_get raises before the file is complete: the temporary file
\* is closed and stays (delete=False), temp_name was not assigned, and the
\* exception leaves _get_url_path
HttpGetRaises(t) ==
  LET c == ucalls[t]
  IN /\ c.pc = "http_get"
     /\ disk.temps[c.temp] < FileChunks
     /\ ucalls' = [ucalls EXCEPT ![t] =
                     [c EXCEPT !.pc = "done", !.out = "HTTPError"]]
     /\ UNCHANGED disk
     /\ urlFrame

\* Lines 932-933: os.replace(temp_name, full_name) in one step
UrlReplace(t) ==
  LET c == ucalls[t]
  IN /\ c.pc = "replace"
     /\ disk' = [disk EXCEPT
                   !.final = [x \in DOMAIN @ \cup {UrlNames[c.i]} |->
                                IF x = UrlNames[c.i] THEN disk.temps[c.temp]
                                ELSE @[x]],
                   !.temps[c.temp] = -1]
     /\ ucalls' = [ucalls EXCEPT ![t] = [c EXCEPT !.pc = "for", !.i = @ + 1]]
     /\ urlFrame

\* The cache before the calls: nothing, or the cache directory with some of
\* the files, each complete
InitU ==
  /\ ManagerInit /\ NoWrappers /\ NoDirectCall /\ NoResolution /\ NoLoad
  /\ NoReferences
  /\ NoFunction
  /\ ucalls = [t \in Threads |-> NoUrlCall]
  /\ \E present \in SUBSET {UrlNames[j] : j \in DOMAIN UrlNames},
        dirs \in SUBSET {"cache", "temp"} :
       /\ present # {} => "cache" \in dirs
       /\ disk = [dirs |-> dirs, final |-> [x \in present |-> FileChunks],
                  temps |-> << >>]

NextU ==
  \E t \in Threads :
    \/ UrlCall(t)
    \/ UrlLookup(t)
    \/ UrlMakedirs(t)
    \/ UrlNextName(t)
    \/ HttpGet(t)
    \/ HttpGetRaises(t)
    \/ UrlReplace(t)

SpecU == InitU /\ [][NextU]_vars





\* ================================================================ claims
\* The elements of a sequence
Range(q) == {q[i] : i \in DOMAIN q}

\* The caller whose local variable slot is s holds that slot
Holders(s) == {c \in Callers : cslot[c] = s}

\* The wrappers built so far
Wrappers == 1..Len(wid)

\* Every module of wrapper w is a clone living on device (slot) s
OnDevice(w, s) ==
  \A n \in pipeline_modules(wattrs[w]) :
    wattrs[w][n].k = "clone" /\ wattrs[w][n].dev = s

\* C1: every with_engine call that took a slot gives it back on every exit
\* path, so when no caller holds a slot the device queue holds all D slots.
\* (Violated: an exception between the queue get and the try block, such as
\* EngineNotReadyError from _build_pipeline_for_engine, loses the slot.)
C1_SlotsBackWhenNoneHeld ==
  (\A c \in Callers : cslot[c] = 0) => Len(device_queue) = NumDevices

\* C2: when the body of a with_engine scope exits, normally or by raising,
\* the leased slot is appended to the device queue, it was not in the queue
\* already (so it is there exactly once), and the body's exception, if any,
\* is the exception the caller sees.
C2_ReleaseOnBodyExit ==
  [][\A c \in Callers, raised \in BOOLEAN :
       BodyExit(c, raised) =>
         /\ cslot[c] \notin Range(device_queue)
         /\ device_queue' = Append(device_queue, cslot[c])
         /\ Cardinality({i \in DOMAIN device_queue' :
                           device_queue'[i] = cslot[c]}) = 1
         /\ exc' = IF raised THEN [caller |-> c, type |-> "BodyError"]
                   ELSE NoExc]_vars

\* C2 witness: a body raised, the caller got the exception and every slot is
\* back in the queue
C2_Witness ==
  /\ exc.type = "BodyError"
  /\ Len(device_queue) = NumDevices

C4_YieldedHasRequestedId ==
  \A c \in Callers :
    pc[c] = "body" =>
      /\ cpipe[c] # 0
      /\ cpipe[c] = slot_pipeline[cslot[c]]
      /\ Active(cpipe[c])
      /\ OnDevice(cpipe[c], cslot[c])
      /\ wid[cpipe[c]] = cid[c]

\* C4 (amended): the yielded pipeline is the resident pipeline of the leased
\* slot, Active on that slot's device, and its identity is the id of the spec
\* the requested id selects (_find_spec matches the request as a glob
\* pattern); that is the requested id whenever the request names an engine.
C4_YieldedIsResidentActive ==
  \A c \in Callers :
    pc[c] = "body" =>
      /\ cpipe[c] # 0
      /\ cpipe[c] = slot_pipeline[cslot[c]]
      /\ Active(cpipe[c])
      /\ OnDevice(cpipe[c], cslot[c])
      /\ wid[cpipe[c]] = engines[cspec[c]].id
      /\ (\E i \in DOMAIN engines : engines[i].id = cid[c])
           => wid[cpipe[c]] = cid[c]

\* C4 witness: a caller is in its body with a pipeline that has modules on
\* the device, after an earlier pipeline was displaced into a pool
C4_Witness ==
  \E c \in Callers :
    /\ pc[c] = "body"
    /\ pipeline_modules(wattrs[cpipe[c]]) # {}
    /\ \E k \in PoolKeys : available_pipelines[k] # <<>>

\* C5: when a caller leased a slot whose resident pipeline has another
\* identity, its next step deactivates that pipeline, takes it off the slot
\* and appends it to the pool keyed by the pipeline's own id, and activates
\* nothing; and a pipeline is activated on a slot only while the slot has no
\* resident pipeline, that is after the displacement.
C5_DisplaceBeforeActivate ==
  [][/\ \A c \in Callers :
          pc[c] = "displace" /\ pc'[c] # "displace" =>
            LET s == cslot[c]
                w == slot_pipeline[s]
            IN /\ w # 0 /\ wid[w] # cid[c] /\ Active(w)
               /\ wprev'[w].isNone
               /\ slot_pipeline'[s] = 0
               /\ available_pipelines' =
                    [available_pipelines EXCEPT ![wid[w]] = Append(@, w)]
               /\ \A v \in Wrappers : ~wprev'[v].isNone => Active(v)
               /\ Len(wid') = Len(wid)
     /\ \A v \in 1..Len(wid') :
          (~wprev'[v].isNone /\ (v \in Wrappers => ~Active(v))) =>
            \E c \in Callers :
              /\ pc[c] \in {"find", "build"}
              /\ slot_pipeline[cslot[c]] = 0
              /\ slot_pipeline'[cslot[c]] = v
              /\ \A k \in PoolKeys : \A i \in DOMAIN available_pipelines'[k] :
                   available_pipelines'[k][i] # v]_vars

\* C5 witness: a pipeline of another identity was displaced into its own pool
\* and the caller that displaced it has not activated anything yet
C5_Witness ==
  \E c \in Callers :
    /\ pc[c] = "find"
    /\ slot_pipeline[cslot[c]] = 0
    /\ \E w \in Wrappers :
         /\ wid[w] # cid[c]
         /\ ~Active(w)
         /\ w \in Range(available_pipelines[wid[w]])

C8_ActivateDeactivateGuards ==
  [][/\ wcall'.op = "activate" =>
          IF Active(1)
          THEN exc'.type = "Exception" /\ wprev' = wprev /\ wattrs' = wattrs
          ELSE exc' = NoExc /\ ~wprev'[1].isNone
     /\ wcall'.op = "deactivate" =>
          IF ~Active(1)
          THEN exc'.type = "Exception" /\ wprev' = wprev /\ wattrs' = wattrs
          ELSE exc' = NoExc /\ wprev'[1].isNone]_vars

\* C8 witness: activate was called on an Active wrapper whose pipeline has no
\* sub-modules, and raised
C8_Witness ==
  /\ wcall.op = "activate"
  /\ exc.type = "Exception"
  /\ Active(1)
  /\ pipeline_modules(wattrs[1]) = {}

\* C9: after a successful deactivate every attribute of the pipeline is the
\* reference it held just before the activate, no clone is left installed,
\* the snapshot is cleared, and activate would succeed again on any device.
C9_RoundTrip ==
  (wcall.op = "deactivate" /\ exc = NoExc) =>
    /\ wattrs[1] = wbefore
    /\ \A n \in DOMAIN wattrs[1] : wattrs[1][n].k # "clone"
    /\ wprev[1] = NonePrevious
    /\ \A device \in Slots : ~activate(wprev[1], wattrs[1], device).raised

\* C9 witness: a pipeline with several sub-modules (and a None attribute) was
\* activated and then deactivated
C9_Witness ==
  /\ wcall.op = "deactivate"
  /\ exc = NoExc
  /\ Cardinality(pipeline_modules(wattrs[1])) >= 2
  /\ \E n \in DOMAIN wattrs[1] : wattrs[1][n] = NoRef

\* The candidate list the seven steps of the specification give, in order:
\* refresh is "the model matches a refresh pattern", fp16mode "FP16 is
\* requested"; the descriptor forbids FP16 with the policy never, and FP16 is
\* mandatory when it is requested and the policy is only
C10_Expected(refresh, fp16mode, policy, refresh_on_error) ==
  LET hub_fetch == Candidate("_get_hf_path", FALSE, FALSE)
      url_fetch == Candidate("_get_url_path", FALSE, FALSE)
      local_fp16 == Candidate("_get_local_path", FALSE, TRUE)
      local_general == Candidate("_get_local_path", FALSE, FALSE)
      hub_cache == Candidate("_get_hf_path", TRUE, FALSE)
      url_cache == Candidate("_get_url_path", TRUE, FALSE)
      forced == Candidate("_get_hf_forced_path", FALSE, FALSE)
      step1 == IF refresh THEN << hub_fetch, url_fetch >> ELSE <<>>
      step2 == IF fp16mode /\ policy # "never" THEN << local_fp16 >> ELSE <<>>
      step3 == IF fp16mode /\ policy = "only" THEN <<>> ELSE << local_general >>
      step45 == << hub_cache, url_cache >>
      step6 == IF refresh THEN <<>> ELSE << hub_fetch, url_fetch >>
      step7 == IF refresh_on_error THEN << forced >> ELSE <<>>
  IN step1 \o step2 \o step3 \o step45 \o step6 \o step7

\* C10: for every combination of inputs the candidate list is exactly the
\* seven steps in their order, each under its precondition, and no candidate
\* occurs twice.
C10_CandidateOrder ==
  rstage = "candidates" =>
    /\ rcands =
         C10_Expected(
           \E i \in DOMAIN rin.refresh_models :
             rin.model # NoneId /\ fnmatch(rin.model, rin.refresh_models[i]),
           mode_fp16(rin.mode), rin.fp16, rin.refresh_on_error)
    /\ \A i, j \in DOMAIN rcands : rcands[i] = rcands[j] => i = j

\* C10 witness: the list of a refreshed model in FP16 mode with
\* refresh-on-error, which starts with the two forced-fresh fetches
C10_Witness ==
  /\ rstage = "candidates"
  /\ mode_fp16(rin.mode)
  /\ rin.refresh_on_error
  /\ rin.fp16 = "prevent"
  /\ Len(rcands) = 7
  /\ rcands[1] = Candidate("_get_hf_path", FALSE, FALSE)

\* The hub cache-only candidate (step 4)
C11_HubCache == Candidate("_get_hf_path", TRUE, FALSE)

\* A candidate that may use the network: hub fetch, URL fetch, forced refetch
C11_IsNetwork(cand) ==
  \/ cand.fn = "_get_hf_forced_path"
  \/ cand.fn \in {"_get_hf_path", "_get_url_path"} /\ ~cand.local_only

\* C11: when the model matches no refresh pattern, every network candidate
\* that is invoked comes after an invocation of the hub cache-only candidate;
\* resolution does not end before the hub cache-only candidate was invoked
\* unless a local candidate succeeded; and when the hub cache-only candidate
\* succeeds, resolution returns its path and no network candidate was invoked.
C11_CacheBeforeNetwork ==
  ~matches_refresh(rin.refresh_models, rin.model) =>
    /\ \A i \in DOMAIN linvoked :
         C11_IsNetwork(linvoked[i].cand) =>
           \E j \in 1..(i - 1) : linvoked[j].cand = C11_HubCache
    /\ lout.status \in {"returned", "raised"} =>
         \/ \E i \in DOMAIN linvoked : linvoked[i].cand = C11_HubCache
         \/ /\ lout.status = "returned"
            /\ linvoked[Len(linvoked)].cand.fn = "_get_local_path"
    /\ (\E i \in DOMAIN linvoked :
          linvoked[i].cand = C11_HubCache /\ linvoked[i].got = "ok") =>
         /\ lout.status = "returned"
         /\ lout.path = WeightPath(C11_HubCache)
         /\ \A i \in DOMAIN linvoked : ~C11_IsNetwork(linvoked[i].cand)

\* C11 witness: no refresh pattern matches, both local candidates failed, and
\* resolution returned the hub cache path although remote fetches and the
\* forced refetch were still on the list
C11_Witness ==
  /\ ~matches_refresh(rin.refresh_models, rin.model)
  /\ rin.refresh_on_error
  /\ lout.status = "returned"
  /\ Len(linvoked) = 3
  /\ linvoked[3].cand = C11_HubCache
  /\ Len(rcands) = 7

\* C12: candidates are invoked in list order, one invocation each; a candidate
\* that returns a path and loads ends the resolution with that path and is the
\* last one invoked; a candidate whose load failed after its path was obtained
\* has its failure on the failures list and the loop goes on to the next.
C12_FirstSuccessInOrder ==
  /\ Len(linvoked) <= Len(rcands)
  /\ \A i \in DOMAIN linvoked : linvoked[i].cand = rcands[i]
  /\ \A i \in DOMAIN linvoked :
       linvoked[i].got = "ok" =>
         /\ i = Len(linvoked)
         /\ lout.status = "returned"
         /\ lout.path = WeightPath(rcands[i])
  /\ lout.status = "returned" =>
       linvoked # <<>> /\ linvoked[Len(linvoked)].got = "ok"
  /\ \A i \in DOMAIN linvoked :
       linvoked[i].got \in {"load ValueError", "load Exception"} =>
         /\ \E k \in DOMAIN failures : failures[k] = linvoked[i].reason
         /\ lidx > i
  /\ lout.status = "running" => lidx = Len(linvoked) + 1

\* C12 witness: resolution returned the path of a later candidate after an
\* earlier candidate had returned a path whose load failed
C12_Witness ==
  /\ lout.status = "returned"
  /\ \E i \in 1..(Len(linvoked) - 1) : linvoked[i].got = "load Exception"
  /\ \E i \in 1..(Len(linvoked) - 1) : linvoked[i].got = "load ValueError"
  /\ Len(linvoked) < Len(rcands)

\* The reasons of a list in the order of their first occurrence
RECURSIVE C13_FirstOccurrences(_)
C13_FirstOccurrences(reasons) ==
  IF reasons = <<>> THEN <<>>
  ELSE LET n == Len(reasons)
           front == SubSeq(reasons, 1, n - 1)
       IN IF \E i \in 1..(n - 1) : reasons[i] = reasons[n]
          THEN C13_FirstOccurrences(front)
          ELSE Append(C13_FirstOccurrences(front), reasons[n])

\* C13: when resolution ends with the aggregated error every candidate was
\* invoked and failed, and the message is the line naming the engine (its id)
\* or the model (its model_id), followed by the reasons met, each distinct
\* reason once, in the order of first occurrence.
C13_AggregatedFailure ==
  lout.exc = "EnvironmentError" =>
    /\ lout.status = "raised"
    /\ Len(linvoked) = Len(rcands)
    /\ \A i \in DOMAIN linvoked : linvoked[i].got # "ok"
    /\ lspec.id = "e1" =>
         Head(lout.message) = "Failed to load engine e1. Failed attempts:"
    /\ lspec.model_id = "m1" =>
         Head(lout.message) = "Failed to load model m1. Failed attempts:"
    /\ Tail(lout.message) =
         C13_FirstOccurrences([i \in DOMAIN linvoked |-> linvoked[i].reason])
    /\ \A i, j \in DOMAIN lout.message :
         lout.message[i] = lout.message[j] => i = j

\* C13 witness: all seven candidates failed, some with the same reason, and
\* the message lists at least three distinct reasons
C13_Witness ==
  /\ lout.exc = "EnvironmentError"
  /\ Len(linvoked) = 7
  /\ Len(lout.message) \in 4..7
  /\ lspec.model_id = "m1"

\* C14: a source function that raises an exception other than ValueError
\* before any path was returned ends the resolution at once with that
\* exception: it is the last candidate invoked, its failure is not collected,
\* and no aggregated message is produced.
C14_UnexpectedFailureAborts ==
  \A i \in DOMAIN linvoked :
    linvoked[i].got = "Exception" =>
      /\ i = Len(linvoked)
      /\ lout.status = "raised"
      /\ lout.exc = "Exception"
      /\ lout.message = <<>>
      /\ \A k \in DOMAIN failures : failures[k] # linvoked[i].reason

\* C14 witness: the download of the URL fetch raised after earlier candidates
\* had failed with collected failures and while candidates were left
C14_Witness ==
  /\ lout.status = "raised"
  /\ lout.exc = "Exception"
  /\ failures # <<>>
  /\ Len(linvoked) < Len(rcands)

\* C18: once a ModelSet is frozen, every mutating operation on it (update,
\* item assignment, attribute assignment) raises and leaves its contents as
\* they were
C18_FrozenRejectsMutation ==
  [][\A t \in Threads, op \in MutatingOps :
       (Mutate(t, op) /\ heap[tres[t].val.o].frozen)
         => /\ tres'[t].opraised
            /\ heap'[tres[t].val.o] = heap[tres[t].val.o]]_vars

\* C15: in sequential execution each model_id is loaded at most once: a load
\* completes only for a model_id that is not in the registry and ends with
\* the result stored under that model_id; an entry of the registry stays as
\* it is; and a reference to a stored model_id is served from the registry,
\* with no nested load, no load from weights and no new store
C15_LoadedAtMostOnce ==
  [][/\ \A m \in ModelIds :
          /\ nloaded'[m] <= 1
          /\ nweights'[m] <= 1
          /\ nloaded'[m] > nloaded[m]
               => /\ m \notin DOMAIN models
                  /\ m \in DOMAIN models'
                  /\ \E t \in Threads : models'[m] = tret[t]
     /\ \A m \in DOMAIN models :
          m \in DOMAIN models' /\ models'[m] = models[m]
     /\ \A t \in Threads :
          (/\ stack[t] # <<>>
           /\ Top(t).pc = "start"
           /\ Top(t).spec.kind = "ref"
           /\ Top(t).spec.ref.mid \in DOMAIN models)
            => /\ Len(stack'[t]) <= Len(stack[t])
               /\ nloaded' = nloaded
               /\ nweights' = nweights
               /\ models' = models]_vars

\* C15 witness: a later reference to m1 was served from the registry after
\* its one load
C15_Witness ==
  \E t \in Threads :
    /\ tres[t].status = "returned"
    /\ tres[t].hit
    /\ tres[t].spec.ref.mid = "m1"
    /\ nloaded["m1"] = 1
    /\ "m1" \in DOMAIN models

\* A reference to a whole model, with no submodel and no filter
WholeSet(ref) ==
  ref.sub = NoneId /\ ref.whitelist = {} /\ ref.blacklist = {}

\* C16 as stated: a whole-set reference to a model that is already in the
\* registry (the second access) returns a frozen ModelSet
C16_SecondAccessFrozen ==
  \A t \in Threads :
    (/\ tres[t].status = "returned"
     /\ tres[t].hit
     /\ WholeSet(tres[t].spec.ref)
     /\ tres[t].val.k = "set")
      => heap[tres[t].val.o].frozen

\* C16 amended: the ModelSet a whole-set reference returns, on the second
\* access as on the first, is an unfrozen copy of the cached ModelSet: an
\* object of its own, not shared with another caller, with the cached
\* components when it is handed over, which accepts the caller's mutations;
\* the frozen ModelSet is the one that stays in the registry
C16_SecondAccessUnfrozenCopy ==
  \A t \in Threads :
    (/\ tres[t].status = "returned"
     /\ WholeSet(tres[t].spec.ref)
     /\ tres[t].val.k = "set")
      => LET mid == tres[t].spec.ref.mid
             o == tres[t].val.o
         IN /\ mid \in DOMAIN models
            /\ models[mid].k = "set"
            /\ heap[models[mid].o].frozen
            /\ o # models[mid].o
            /\ \A u \in Threads \ {t} : tres[u].val # tres[t].val
            /\ ~heap[o].frozen
            /\ ~tres[t].opraised
            /\ tres[t].op = "none"
                 => heap[o].dict = heap[models[mid].o].dict

\* C16 witness: @m1 was resolved while m1 was already in the registry, and
\* the ModelSet that came back was then changed by the caller
C16_Witness ==
  \E t \in Threads :
    /\ tres[t].status = "returned"
    /\ tres[t].hit
    /\ tres[t].spec.ref = Ref("m1", NoneId, {}, {})
    /\ tres[t].val.k = "set"
    /\ tres[t].op = "update"
    /\ ~tres[t].opraised

\* The entries a reference with this whitelist and blacklist lets through
C17_Filtered(dict, ref) ==
  LET wl == IF ref.whitelist # {} THEN DOMAIN dict \cap ref.whitelist
            ELSE DOMAIN dict
  IN [key \in wl \ ref.blacklist |-> dict[key]]

\* C17: every ModelSet in the registry is frozen, and once it is there its
\* mapping stays as it is; a ModelSet handed to a caller is never the
\* registry's object, is unfrozen and holds the cached entries the
\* reference's whitelist / blacklist let through; and a caller's set changes
\* only by what that caller does to it, so no mutation of one caller's set
\* reaches the registry or another caller's set
C17_CachedSetsImmutable ==
  [][/\ \A m \in DOMAIN models' :
          models'[m].k = "set" => heap'[models'[m].o].frozen
     /\ \A m \in DOMAIN models :
          /\ m \in DOMAIN models'
          /\ models'[m] = models[m]
          /\ models[m].k = "set" => heap'[models[m].o] = heap[models[m].o]
     /\ \A t \in Threads :
          (tres'[t].status = "returned" /\ tres'[t].val.k = "set")
            => LET ref == tres'[t].spec.ref
                   o == tres'[t].val.o
               IN /\ \A m \in DOMAIN models' : models'[m] # tres'[t].val
                  /\ ~heap'[o].frozen
                  /\ (tres'[t].op = "none" /\ ref.sub = NoneId)
                       => /\ ref.mid \in DOMAIN models'
                          /\ heap'[o].dict =
                               C17_Filtered(heap'[models'[ref.mid].o].dict, ref)
     /\ \A u \in Threads :
          (/\ tres[u].status = "returned"
           /\ tres[u].val.k = "set"
           /\ tres'[u] = tres[u])
            => heap'[tres[u].val.o] = heap[tres[u].val.o]]_vars

\* C17 witness: two callers hold ModelSets from references to m1, one
\* changed its own, and the other's and the registry's still hold the
\* loaded vae
C17_Witness ==
  \E t \in Threads, u \in Threads :
    /\ t # u
    /\ tres[t].status = "returned" /\ tres[u].status = "returned"
    /\ tres[t].spec.ref.mid = "m1" /\ tres[u].spec.ref.mid = "m1"
    /\ tres[t].val.k = "set" /\ tres[u].val.k = "set"
    /\ tres[t].op = "setattr"
    /\ heap[tres[t].val.o].dict["vae"] = OwnComponent(t)
    /\ heap[tres[u].val.o].dict["vae"] = Component("m1", "vae", 1)
    /\ heap[models["m1"].o].dict["vae"] = Component("m1", "vae", 1)
    /\ heap[models["m1"].o].frozen

\* The model ids the first enabled spec of m refers to: through its model
\* field, its mix inputs and its overrides
C19_Edges(m) ==
  IF _model_specs(m) = <<>> THEN {}
  ELSE LET s == _model_specs(m)[1]
       IN (IF s.kind = "ref" THEN {s.ref.mid} ELSE {})
          \cup { s.inputs[i].mid : i \in 1..Len(s.inputs) }
          \cup { s.overrides[i].ref.mid : i \in 1..Len(s.overrides) }

RECURSIVE C19_Closure(_, _)
C19_Closure(S, n) ==
  IF n = 0 THEN S
  ELSE C19_Closure(S \cup UNION { C19_Edges(m) : m \in S }, n - 1)

\* The model ids whose chain of references reaches a model that refers back
\* to itself
C19_CyclicIds ==
  { m \in ModelIds :
      \E x \in C19_Closure({m}, Cardinality(ModelIds)) :
        x \in C19_Closure(C19_Edges(x), Cardinality(ModelIds)) }

C19_Cyclic(m) == m \in C19_CyclicIds

\* C19 as stated, for the resolutions in which no load fails: when the chain
\* of references is cyclic the resolution never ends
C19_CyclicNeverEnds ==
  \A t \in Threads :
    (C19_Cyclic(tres[t].spec.ref.mid) /\ tres[t].exc # "EnvironmentError")
      => tres[t].status \notin {"returned", "raised"}

\* C19 amended: a resolution returns a model only when the chain of
\* references is acyclic; over a cyclic chain it recurses up to the recursion
\* limit and ends with RecursionError (or earlier with the error of a failing
\* load), and nothing is stored for a model whose chain is cyclic; over an
\* acyclic chain the recursion limit is never hit
C19_ReturnsOnlyIfAcyclic ==
  /\ \A t \in Threads :
       /\ Len(stack[t]) <= MaxDepth
       /\ tres[t].status = "returned" => ~C19_Cyclic(tres[t].spec.ref.mid)
       /\ tres[t].exc = "RecursionError" => C19_Cyclic(tres[t].spec.ref.mid)
       /\ (tres[t].status = "raised" /\ C19_Cyclic(tres[t].spec.ref.mid))
            => tres[t].exc \in {"RecursionError", "EnvironmentError"}
  /\ \A m \in DOMAIN models : ~C19_Cyclic(m)

\* C19 witness: the resolution of @c3, whose override refers back to c3,
\* ended with RecursionError; m1 was stored on the way and c3 was not
C19_Witness ==
  \E t \in Threads :
    /\ tres[t].status = "raised"
    /\ tres[t].exc = "RecursionError"
    /\ tres[t].spec.ref.mid = "c3"
    /\ "m1" \in DOMAIN models
    /\ "c3" \notin DOMAIN models

\* Thread t got its ModelSet from a reference to m1 that it did not find in
\* the registry
C20_MissedM1(t) ==
  /\ tres[t].status = "returned"
  /\ ~tres[t].hit
  /\ tres[t].spec.ref = Ref("m1", NoneId, {}, {})
  /\ tres[t].val.k = "set"

\* C20: when two threads both found the registry empty for m1, m1 was loaded
\* (at least) twice and the two threads hold components of different loads;
\* and every store replaces what the registry held for the model id, so the
\* registry keeps the result of the later store only
C20_RaceDoubleLoads ==
  [][/\ \A t \in Threads, u \in Threads :
          (t # u /\ C20_MissedM1(t)' /\ C20_MissedM1(u)')
            => /\ nloaded'["m1"] >= 2
               /\ nweights'["m1"] >= 2
               /\ \A n \in ComponentNames :
                    heap'[tres'[t].val.o].dict[n]
                      # heap'[tres'[u].val.o].dict[n]
     /\ \A t \in Threads :
          (stack[t] # <<>> /\ Top(t).pc = "store" /\ stack'[t] # stack[t])
            => /\ Top(t).spec.ref.mid \in DOMAIN models'
               /\ models'[Top(t).spec.ref.mid] = tret[t]]_vars

\* C20 witness: both threads missed m1, m1 was loaded twice, the threads
\* hold the components of the first and of the second load, and the registry
\* holds those of the first load, whose store came later
C20_Witness ==
  \E t \in Threads, u \in Threads :
    /\ t # u
    /\ C20_MissedM1(t) /\ C20_MissedM1(u)
    /\ nloaded["m1"] = 2
    /\ heap[tres[t].val.o].dict["unet"] = Component("m1", "unet", 1)
    /\ heap[tres[u].val.o].dict["unet"] = Component("m1", "unet", 2)
    /\ heap[models["m1"].o].dict["unet"] = Component("m1", "unet", 1)

\* The component names the model loaded for an override carries
C21_Provided(o) ==
  IF o.way = "whole" THEN ComponentNames ELSE {o.name}

C22_Asymmetric(shapes) ==
  /\ all_same(Tail(shapes))
  /\ Len(shapes[1]) = Len(shapes[2])
  /\ Len(shapes[1]) >= 2
  /\ \A i \in 1..Len(shapes[1]) : i # 2 => shapes[1][i] = shapes[2][i]
  /\ shapes[1][2] >= shapes[2][2]

\* C22: mixing succeeds exactly when all shapes are equal or in the
\* asymmetric case; in the asymmetric case only the overlapping part of
\* dimension 1 is mixed and the result has the first input's shape; every
\* other combination fails with the ValueError that names the shapes
C22_MixShapeRule ==
  (fargs.fn = "_mix_models" /\ flocals.pc = "done")
    => LET shapes == fargs.shapes
           out == flocals.out
       IN IF all_same(shapes)
          THEN out.status = "returned" /\ out.shape = shapes[1]
          ELSE IF C22_Asymmetric(shapes)
          THEN /\ out.status = "returned"
               /\ out.shape = shapes[1]
               /\ out.mixed = shapes[2][2]
          ELSE out.status = "ValueError"

\* C23 as stated: (4,9,64,64) with (4,4,64,64) succeeds and mixes the first
\* four entries of dimension 1; (4,9,64,64) with (4,5,64,64) fails; the
\* smaller one given first fails
C23_Examples ==
  (fargs.fn = "_mix_models" /\ flocals.pc = "done")
    => /\ fargs.shapes = << <<4, 9, 64, 64>>, <<4, 4, 64, 64>> >>
            => /\ flocals.out.status = "returned"
               /\ flocals.out.mixed = 4
       /\ fargs.shapes = << <<4, 9, 64, 64>>, <<4, 5, 64, 64>> >>
            => flocals.out.status # "returned"
       /\ fargs.shapes = << <<4, 4, 64, 64>>, <<4, 9, 64, 64>> >>
            => flocals.out.status # "returned"

\* C23 amended: (4,9,64,64) with (4,4,64,64) succeeds and mixes the first
\* four entries of dimension 1; (4,9,64,64) with (4,5,64,64) succeeds too and
\* mixes the first five; (4,9,64,64) with (4,5,32,32), which differ in
\* other dimensions as well, fails with ValueError; the smaller one given
\* first fails
C23_ExamplesAsMixed ==
  (fargs.fn = "_mix_models" /\ flocals.pc = "done")
    => /\ fargs.shapes = << <<4, 9, 64, 64>>, <<4, 4, 64, 64>> >>
            => /\ flocals.out.status = "returned"
               /\ flocals.out.mixed = 4
               /\ flocals.out.shape = <<4, 9, 64, 64>>
       /\ fargs.shapes = << <<4, 9, 64, 64>>, <<4, 5, 64, 64>> >>
            => /\ flocals.out.status = "returned"
               /\ flocals.out.mixed = 5
               /\ flocals.out.shape = <<4, 9, 64, 64>>
       /\ fargs.shapes = << <<4, 9, 64, 64>>, <<4, 5, 32, 32>> >>
            => flocals.out.status = "ValueError"
       /\ fargs.shapes = << <<4, 4, 64, 64>>, <<4, 9, 64, 64>> >>
            => flocals.out.status # "returned"

\* C23 witness: (4,9,64,64) was mixed with (4,5,64,64)
C23_Witness ==
  /\ fargs.fn = "_mix_models"
  /\ flocals.pc = "done"
  /\ fargs.shapes = << <<4, 9, 64, 64>>, <<4, 5, 64, 64>> >>
  /\ flocals.out.status = "returned"

\* ---------------------------------------------------------------------------
\* C24: batchmax
\* ---------------------------------------------------------------------------

\* The floor of the linear interpolation between (x0, y0) and (x1, y1) at
\* pixels, in exact arithmetic
C24_ExactFloor(x0, y0, x1, y1, pixels) ==
  (y0 * (x1 - x0) + (pixels - x0) * (y1 - y0)) \div (x1 - x0)

\* C24: for breakpoints sorted ascending and every integer pixels, batchmax
\* returns the first breakpoint's value at or below the first breakpoint,
\* the floor of the linear interpolation between the two bracketing
\* breakpoints between them, and 1 above the last breakpoint; with
\* [(262144,16),(1048576,4)] it returns 16 for 100000, 10 for 655360 and 1
\* for 2000000
C24_BatchmaxRule ==
  (fargs.fn = "batchmax" /\ flocals.pc = "done" /\ fargs.self.points # << >>) =>
    LET points == fargs.self.points
        pixels == fargs.pixels
        n == Len(points)
    IN /\ pixels <= points[1][1] => flocals.out = points[1][2]
       /\ \A j \in 1..(n - 1) :
            (pixels > points[1][1] /\ points[j][1] <= pixels
               /\ pixels <= points[j + 1][1])
            => flocals.out = C24_ExactFloor(points[j][1], points[j][2],
                                            points[j + 1][1], points[j + 1][2],
                                            pixels)
       /\ pixels > points[n][1] => flocals.out = 1
       /\ points = << <<262144, 16>>, <<1048576, 4>> >> =>
            /\ pixels = 100000 => flocals.out = 16
            /\ pixels = 655360 => flocals.out = 10
            /\ pixels = 2000000 => flocals.out = 1

\* ---------------------------------------------------------------------------
\* C25: run_autodetect
\* ---------------------------------------------------------------------------

\* The values recorded so far, one for each width tried
C25_Recorded ==
  IF fargs.fn # "run_autodetect" \/ flocals.pc = "start" THEN << >>
  ELSE IF flocals.pc = "done"
  THEN [j \in 1..Len(flocals.points) |-> flocals.points[j][2]]
  ELSE flocals.batchmax

\* The upper bound the search of the j-th width was seeded with
C25_Seed(j) == IF j = 1 THEN 32 ELSE C25_Recorded[j - 1]

\* C25: when generation with batch size b succeeds exactly when b is at most
\* the width's maximum (at least 1), the value recorded for a width is the
\* largest batch size that succeeds and does not exceed the upper bound
\* seeded from the previous width's value (32 for the first)
C25_RecordsLargestWithinSeed ==
  \A j \in 1..Len(C25_Recorded) :
    LET v == C25_Recorded[j]
    IN fargs.maxima # << >> =>
       /\ v <= fargs.maxima[j]
       /\ v <= C25_Seed(j)
       /\ \A b \in 1..C25_Seed(j) : b <= fargs.maxima[j] => b <= v

\* ---------------------------------------------------------------------------
\* C26: the identity of an EngineSpec
\* ---------------------------------------------------------------------------

\* The record has a key that is "id" / "model_id" whatever its case
C26_HasIdKey == \E i \in DOMAIN fargs.data : fargs.data[i][1] \in {"id", "ID"}

C26_HasModelIdKey ==
  \E i \in DOMAIN fargs.data : fargs.data[i][1] \in {"model_id", "Model_ID"}

\* C26 as stated: for every record the constructor accepts, exactly one of
\* is_engine and is_model is true
C26_ExactlyOneIdentity ==
  (fargs.fn = "EngineSpec" /\ flocals.pc = "done") =>
    (EngineSpec_is_engine(flocals.self) # EngineSpec_is_model(flocals.self))

\* C26 amended: is_engine is true exactly when the record has an id key and
\* is_model exactly when it has a model_id key, with keys compared
\* case-insensitively; so exactly one of them is true for exactly the
\* records that have one of the two keys and not the other
C26_IdentityFollowsKeys ==
  (fargs.fn = "EngineSpec" /\ flocals.pc = "done") =>
    /\ EngineSpec_is_engine(flocals.self) = C26_HasIdKey
    /\ EngineSpec_is_model(flocals.self) = C26_HasModelIdKey
    /\ (EngineSpec_is_engine(flocals.self) # EngineSpec_is_model(flocals.self))
         = (C26_HasIdKey # C26_HasModelIdKey)

\* C26 witness: a spec was built from a record whose only identity key is
\* written "Model_ID"
C26_Witness ==
  /\ fargs.fn = "EngineSpec" /\ flocals.pc = "done"
  /\ C26_HasModelIdKey /\ ~C26_HasIdKey
  /\ \A i \in DOMAIN fargs.data : fargs.data[i][1] # "model_id"
  /\ EngineSpec_is_model(flocals.self) /\ ~EngineSpec_is_engine(flocals.self)

\* ---------------------------------------------------------------------------
\* C27: the step loop and the stop event
\* ---------------------------------------------------------------------------

\* The generator ran and the stop event was set before it ran
C27_RanAfterSet ==
  /\ fargs.fn = "__iter__" /\ flocals' # flocals
  /\ \/ flocals.pc = "start" /\ fargs.is_set
     \/ flocals.pc = "yield" /\ flocals.is_set

\* C27: the stop event is checked once before each step: once it is set no
\* further step is yielded and the iteration ends normally; when it is never
\* set, or none was supplied, every step is yielded in order
C27_StopsAtNextCheck ==
  /\ [][C27_RanAfterSet =>
          /\ flocals'.yielded =
               IF flocals.pc = "start" THEN << >> ELSE flocals.yielded
          /\ flocals'.pc = "returned"]_vars
  /\ []((fargs.fn = "__iter__" /\ flocals.pc = "returned"
           /\ (fargs.stop_event = "None" \/ ~flocals.is_set))
         => flocals.yielded = fargs.iterable)
  /\ []((fargs.fn = "__iter__" /\ flocals.pc # "start")
         => flocals.yielded = SubSeq(fargs.iterable, 1, Len(flocals.yielded)))

\* C27 witness: the stop event was set after the first step, and the
\* iteration ended with one of three steps yielded
C27_Witness ==
  /\ fargs.fn = "__iter__" /\ flocals.pc = "returned"
  /\ Len(fargs.iterable) = 3
  /\ flocals.is_set /\ flocals.yielded = << 1 >>
  /\ flocals.description = "ABORTED"

\* ---------------------------------------------------------------------------
\* C28: the modules whose move to the device is delayed
\* ---------------------------------------------------------------------------

\* The names of the call's modules that are of one of the classes
C28_Named(classes) ==
  {name \in DOMAIN fargs.modules : fargs.modules[name] \in classes}

\* The modules a wrapper like the call's would delay at the level
C28_DelayedAt(level) ==
  {name \in DOMAIN fargs.modules :
     _delay(fargs.class, [fargs.mode EXCEPT !.vramO = level],
            fargs.modules[name])}

\* C28: a generation wrapper on CUDA delays no module up to level 2, the
\* UNet modules at level 3, every module but the CLIP model at level 4 and
\* every module from level 5; the set never shrinks as the level grows; on
\* other devices and for other wrappers nothing is delayed
C28_DelayedByLevel ==
  (fargs.fn = "activate" /\ flocals.pc = "done") =>
    LET level == fargs.mode.vramO
        all == DOMAIN fargs.modules
    IN /\ flocals.excluded =
            IF fargs.class = "GeneratePipelineWrapper" /\ fargs.mode.device = "cuda"
            THEN IF level <= 2 THEN {}
                 ELSE IF level = 3 THEN C28_Named({"UNet2DConditionModel"})
                 ELSE IF level = 4 THEN all \ C28_Named({"CLIPModel"})
                 ELSE all
            ELSE {}
       /\ \A higher \in level..MaxLevel :
            flocals.excluded \subseteq C28_DelayedAt(higher)

\* C28 witness: a generation wrapper on CUDA at level 4 delayed every module
\* of a pipeline with a CLIP model but that one
C28_Witness ==
  /\ fargs.fn = "activate" /\ flocals.pc = "done"
  /\ fargs.class = "GeneratePipelineWrapper"
  /\ fargs.mode = [device |-> "cuda", vramO |-> 4]
  /\ "clip_model" \in DOMAIN fargs.modules
  /\ flocals.excluded = DOMAIN fargs.modules \ {"clip_model"}

\* ---------------------------------------------------------------------------
\* C29, C30: the weight format fetched from the hub
\* ---------------------------------------------------------------------------

\* The files of the listing: those of the repository under the subfolder
C29_Listing ==
  {f \in fargs.siblings :
     fargs.subfolder = << >> \/ f[1] = fargs.subfolder[1]}

\* The listing contains files of the format
C29_Has(ext) == \E f \in C29_Listing : f[Len(f)] = ext

C29_Formats == {"safetensors", "bin", "pt", "ckpt"}

\* What is common to C29 as stated and as amended: the call fails exactly
\* when no format is chosen, and the download has no file of another weight
\* format
C29_ChosenAndDownloaded(chosen) ==
  /\ flocals.out.status = (IF chosen = "None" THEN "ValueError" ELSE "returned")
  /\ flocals.out.use = chosen
  /\ \A f \in flocals.out.download :
       f[Len(f)] \in C29_Formats => f[Len(f)] = chosen

\* C29 as stated: safetensors when present and compatible, otherwise bin,
\* otherwise pt, otherwise ckpt; a format is chosen only if the listing has
\* files of it, a listing with none of the four fails, and the download
\* excludes every file of the other weight formats
C29_FormatByPriority ==
  (fargs.fn = "_get_hf_path" /\ flocals.pc = "done") =>
    LET chosen == IF C29_Has("safetensors") /\ fargs.compatible THEN "safetensors"
                  ELSE IF C29_Has("bin") THEN "bin"
                  ELSE IF C29_Has("pt") THEN "pt"
                  ELSE IF C29_Has("ckpt") THEN "ckpt"
                  ELSE "None"
    IN /\ C29_ChosenAndDownloaded(chosen)
       /\ flocals.out.status = "returned" => C29_Has(flocals.out.use)
       /\ (\A ext \in C29_Formats : ~C29_Has(ext))
            => flocals.out.status = "ValueError"

\* C29 amended: safetensors when safe_only is set, whatever the listing has;
\* otherwise safetensors when present and either compatible or without bin
\* files in the listing, otherwise bin, otherwise pt, otherwise ckpt; without
\* safe_only a format is chosen only if the listing has files of it and a
\* listing with none of the four fails; the download excludes every file of
\* the other weight formats
C29_FormatByCodePriority ==
  (fargs.fn = "_get_hf_path" /\ flocals.pc = "done") =>
    LET chosen == IF fargs.safe_only THEN "safetensors"
                  ELSE IF C29_Has("safetensors")
                          /\ (fargs.compatible \/ ~C29_Has("bin"))
                  THEN "safetensors"
                  ELSE IF C29_Has("bin") THEN "bin"
                  ELSE IF C29_Has("pt") THEN "pt"
                  ELSE IF C29_Has("ckpt") THEN "ckpt"
                  ELSE "None"
    IN /\ C29_ChosenAndDownloaded(chosen)
       /\ ~fargs.safe_only =>
            /\ flocals.out.status = "returned" => C29_Has(flocals.out.use)
            /\ (\A ext \in C29_Formats : ~C29_Has(ext))
                 => flocals.out.status = "ValueError"

\* C29 witness: the listing has bin, pt and safetensors files, safetensors
\* is not compatible, and bin was chosen and only bin files of the four
\* formats are downloaded
C29_Witness ==
  /\ fargs.fn = "_get_hf_path" /\ flocals.pc = "done"
  /\ ~fargs.safe_only /\ ~fargs.compatible
  /\ C29_Has("safetensors") /\ C29_Has("bin") /\ C29_Has("pt")
  /\ flocals.out.use = "bin"
  /\ \E f \in flocals.out.download : f[Len(f)] = "bin"
  /\ \A f \in flocals.out.download : f[Len(f)] \notin {"safetensors", "pt", "ckpt"}

\* The safetensors files of the listing with the base name of a ckpt file
C30_Matching ==
  {f \in C29_Listing :
     /\ f[Len(f)] = "safetensors"
     /\ [f EXCEPT ![Len(f)] = "ckpt"] \in C29_Listing}

C31_Hit(t) == ucalls[t].pc = "done" /\ ucalls[t].out = "returned"

\* C31: whatever the interleaving of the resolutions and wherever a download
\* fails, a file under its final name in the cache directory is complete; a
\* cache-only lookup returns only when every named file exists, and its
\* steps change nothing on disk
C31_FinalNamesComplete ==
  /\ [](\A name \in DOMAIN disk.final : disk.final[name] = FileChunks)
  /\ [](\A t \in Threads :
          C31_Hit(t) =>
            \A j \in DOMAIN UrlNames : Stored(UrlNames[j]) = FileChunks)
  /\ [][\A t \in Threads :
          (ucalls[t].local_only /\ ucalls'[t] # ucalls[t]) => disk' = disk]_vars
  /\ [](\A t \in Threads :
          (ucalls[t].local_only /\ ucalls[t].pc = "done")
            => ucalls[t].out \in {"returned", "ValueError"})

\* C31 witness: a download failed part-way and left a partial temporary
\* file, another thread downloaded a file and returned, and every named
\* file is complete under its final name
C31_Witness ==
  /\ \E j \in DOMAIN disk.temps : 0 < disk.temps[j] /\ disk.temps[j] < FileChunks
  /\ \E t \in Threads : ucalls[t].out = "HTTPError"
  /\ \E t \in Threads : C31_Hit(t) /\ ~ucalls[t].local_only /\ ucalls[t].temp # 0
  /\ \A j \in DOMAIN UrlNames : Stored(UrlNames[j]) = FileChunks

\* ---------------------------------------------------------------- C32
\* The requests the claim names: an id that selects no descriptor, or a
\* disabled one, or one whose task is not the task asked for
C32_Rejected(id, task) ==
  /\ id # NoneId
  /\ \/ _find_spec(id) = 0
     \/ ~engines[_find_spec(id)].enabled
     \/ task # NoneId /\ task # engines[_find_spec(id)].task

C32_RejectedRequests ==
  {r \in RequestIds \X RequestTasks : C32_Rejected(r[1], r[2])}

\* C32: a with_engine call whose id selects no descriptor, or a disabled one,
\* or one of another task than requested, raises (EngineNotFoundError, or
\* ValueError for the task) without taking a slot: the device queue, every
\* slot's resident pipeline, every pool and every wrapper's activation state
\* are what they were, and the caller is outside with_engine again. In two
\* parts: the tests at the head of with_engine give one of these errors for
\* every such request, in every state of the manager; and every step in which
\* a caller that was outside with_engine gets one of these errors leaves the
\* queue, the slots, the pools and the wrappers alone.
C32_RejectedBeforeSlot ==
  /\ [](\A r \in C32_RejectedRequests :
          WithEngineEntry(r[1], r[2]).err
            \in {"EngineNotFoundError", "ValueError"})
  /\ [][\A c \in Callers :
          (/\ pc[c] = "idle"
           /\ exc'.caller = c
           /\ exc'.type \in {"EngineNotFoundError", "ValueError"})
            => /\ pc'[c] = "idle"
               /\ cslot'[c] = 0
               /\ UNCHANGED << poolVars, wrapperVars >>]_vars

\* C32 witness: a request was rejected for its task while another caller
\* holds a slot, a slot is free and a pipeline waits in a pool
C32_Witness ==
  /\ exc.type = "ValueError"
  /\ \E c \in Callers : cslot[c] # 0 /\ c # exc.caller
  /\ device_queue # <<>>
  /\ \E k \in PoolKeys : available_pipelines[k] # <<>>

\* ---------------------------------------------------------------- C33
\* C33: a with_engine call without an id, when no default engine is
\* registered for the requested task ('generate' when no task is given),
\* raises EngineNotFoundError. (Violated: _defaults is a plain dict, so the
\* lookup of line 1757 raises KeyError before the test of line 1759.)
C33_NoDefaultIsNotFound ==
  [][\A c \in Callers, task \in RequestTasks :
       /\ Call(c, NoneId, task)
       /\ (IF task # NoneId THEN task ELSE "generate") \notin DOMAIN defaults
       => /\ exc'.caller = c
          /\ exc'.type = "EngineNotFoundError"]_vars

\* ---------------------------------------------------------------- C34
\* The slots wrapper w is resident on, and its places in the pools
C34_SlotsOf(w) == {s \in Slots : slot_pipeline[s] = w}

C34_PoolPlaces(w) ==
  {p \in PoolKeys \X (1..MaxBuilt) :
     /\ p[2] \in DOMAIN available_pipelines[p[1]]
     /\ available_pipelines[p[1]][p[2]] = w}

\* C34: every wrapper that was built is in exactly one place: resident on
\* exactly one slot and Active, or once in the pool keyed by its own id and
\* Inactive; never on two slots, never resident and pooled, never twice in
\* the pools.
C34_ExactlyOnePlace ==
  \A w \in DOMAIN wid :
    \/ /\ Cardinality(C34_SlotsOf(w)) = 1
       /\ C34_PoolPlaces(w) = {}
       /\ Active(w)
    \/ /\ C34_SlotsOf(w) = {}
       /\ Cardinality(C34_PoolPlaces(w)) = 1
       /\ \A p \in C34_PoolPlaces(w) : p[1] = wid[w]
       /\ ~Active(w)

\* C34 witness: one wrapper is resident and Active while another waits,
\* Inactive, in the pool of its id
C34_Witness ==
  \E v, w \in DOMAIN wid :
    /\ C34_SlotsOf(v) # {} /\ Active(v)
    /\ C34_PoolPlaces(w) # {} /\ ~Active(w)

\* ---------------------------------------------------------------- C35
\* The wrappers of identity k that are resident on a slot or in a pool
C35_Wrappers(k) ==
  {w \in DOMAIN wid :
     /\ wid[w] = k
     /\ \/ \E s \in Slots : slot_pipeline[s] = w
        \/ \E q \in PoolKeys, i \in 1..MaxBuilt :
             /\ i \in DOMAIN available_pipelines[q]
             /\ available_pipelines[q][i] = w}

\* C35: when every request names its engine by the exact id, the wrappers
\* of one identity, resident and pooled together, are never more than the
\* D device slots.
C35_AtMostDPerIdentity ==
  \A k \in PoolKeys : Cardinality(C35_Wrappers(k)) <= NumDevices

\* C35 witness: one identity has D wrappers, one more wrapper could still be
\* built, and a caller asking for that identity again is served
C35_Witness ==
  \E k \in PoolKeys, c \in Callers :
    /\ Cardinality(C35_Wrappers(k)) = NumDevices
    /\ Len(wid) < MaxBuilt
    /\ pc[c] = "body" /\ cid[c] = k
    /\ exc = NoExc

\* ---------------------------------------------------------------- C36
\* C36: with D >= 1 slots, bodies that are always left and fair scheduling,
\* every with_engine call for a loaded engine that waits for a slot is
\* eventually yielded its pipeline (or the wrappers this model may build are
\* used up). (Violated: a call for an engine that is not loaded raises after
\* it took a slot and never returns it, as in C1; once every slot is lost
\* the callers of loaded engines wait forever.)
C36_EveryCallYields ==
  \A c \in Callers :
    (pc[c] = "wait" /\ engines[cspec[c]].id \in engine_models)
      ~> (pc[c] = "body" \/ Len(wid) = MaxBuilt)

\* ---------------------------------------------------------------- C37
\* The model ids thread t is loading for a reference: the frames that wait
\* at line 1428 for the nested _load_model to return
C37_Loading(t) ==
  {stack[t][i].spec.ref.mid :
     i \in {j \in 1..(Len(stack[t]) - 1) : stack[t][j].pc = "store"}}

\* C37: when the load under a reference raises, the registry is left as it
\* was and has no entry for the model id that was being loaded; and a
\* resolution of a reference whose model id has no entry (so also one after
\* a failed load) calls _load_model for the model's spec again.
C37_FailedLoadStoresNothing ==
  [][\A t \in Threads :
       /\ (stack[t] # <<>> /\ stack'[t] = <<>> /\ tres'[t].status = "raised")
            => /\ \A m \in C37_Loading(t) : m \notin DOMAIN models'
               /\ C37_Loading(t) # {} => models' = models
       /\ (/\ stack[t] # <<>>
           /\ stack'[t] # stack[t]
           /\ Top(t).pc = "start"
           /\ Top(t).spec.kind = "ref"
           /\ Top(t).spec.ref.mid \notin DOMAIN models
           /\ _model_specs(Top(t).spec.ref.mid) # <<>>
           /\ Len(stack[t]) < MaxDepth)
            => /\ Len(stack'[t]) = Len(stack[t]) + 1
               /\ stack'[t][Len(stack[t])].pc = "store"
               /\ stack'[t][Len(stack'[t])] =
                    Frame(_model_specs(Top(t).spec.ref.mid)[1])]_vars

\* C37 witness: a reference to m1 failed because the load of m1 from its
\* weights raised, and a later reference to m1 loaded it and stored it
C37_Witness ==
  \E t, u \in Threads :
    /\ tres[u].status = "raised"
    /\ tres[u].exc = "EnvironmentError"
    /\ tres[u].spec.ref.mid = "m1"
    /\ tres[t].status = "returned"
    /\ ~tres[t].hit
    /\ tres[t].spec.ref.mid = "m1"
    /\ nloaded["m1"] = 1
    /\ "m1" \in DOMAIN models

\* ---------------------------------------------------------------- C38
\* The widths of the range(512, resmax, resstep) of the call
C38_Widths == {x \in 512..(fargs.resmax - 1) : (x - 512) % fargs.resstep = 0}

\* The breakpoints recorded so far: (pixels, batch value) pairs
C38_Points ==
  IF flocals.pc = "done" THEN flocals.points
  ELSE IF flocals.pc = "start" THEN << >>
  ELSE [j \in 1..Len(flocals.pixels) |->
          << flocals.pixels[j], flocals.batchmax[j] >>]

\* C38: run_autodetect ends whatever generation calls raise; the breakpoints
\* it records are strictly ascending in pixels and strictly descending in
\* batch value, every value is at least 1, and the last value is 1 unless
\* every width of the range was tried.
C38_AutodetectEnds ==
  /\ [](fargs.fn = "run_autodetect" =>
         /\ \A j \in 1..Len(C38_Points) : C38_Points[j][2] >= 1
         /\ \A j \in 2..Len(C38_Points) :
              /\ C38_Points[j - 1][1] < C38_Points[j][1]
              /\ C38_Points[j - 1][2] > C38_Points[j][2]
         /\ flocals.pc = "done" =>
              \/ Len(C38_Points) = Cardinality(C38_Widths)
              \/ /\ C38_Points # << >>
                 /\ C38_Points[Len(C38_Points)][2] = 1)
  /\ (fargs.fn = "run_autodetect" ~> flocals.pc = "done")

\* C38 witness: on a device where any call may raise the run ended before the
\* last width of the range, with two breakpoints, the second of value 1
C38_Witness ==
  /\ fargs.fn = "run_autodetect"
  /\ fargs.maxima = << >>
  /\ flocals.pc = "done"
  /\ Len(flocals.points) = 2
  /\ Cardinality(C38_Widths) = 3
  /\ flocals.points[1][2] > 1
  /\ flocals.points[2][2] = 1

\* ---------------------------------------------------------------- C39
\* The Accept header of the request names a range that covers a served type
C39_Acceptable ==
  \E i \in DOMAIN fargs.request.accept,
     t \in {preferred_return_type} \cup return_types :
    media_matches(fargs.request.accept[i], t)

\* C39: the handler is called only when the controller has a handler for
\* the method and the Accept header matches a served return type, and for
\* POST only when the Content-Type is application/json; an exception of the
\* handler never leaves the render method: a ValueError gives an error page
\* with 400, a web error one with its own status, anything else one with 500.
C39_HandlerGuardedAndCaught ==
  (fargs.fn = "render" /\ flocals.pc = "done") =>
    LET q == fargs.request
        res == flocals.response
    IN /\ res.invoked =>
            /\ q.handler
            /\ C39_Acceptable
            /\ q.method = "POST" => q.content_type = "application/json"
       /\ (res.invoked /\ q.handles.raises # NoneId) =>
            /\ res.raised = NoneId
            /\ res.out = "ErrorPage"
            /\ res.code = CASE q.handles.raises = "ValueError" -> 400
                            [] q.handles.raises = "WebError" ->
                                 int(q.handles.status)
                            [] OTHER -> 500

\* C39 witness: a POST with a JSON body whose Accept header lists text/html
\* before a range that covers application/json reached the handler, which
\* raised a web error 503, and the response is an error page with 503
C39_Witness ==
  /\ fargs.fn = "render"
  /\ flocals.pc = "done"
  /\ fargs.request.method = "POST"
  /\ fargs.request.accept = << << "text", "html" >>, << "application", "*" >> >>
  /\ fargs.request.handles.status = << 5, 0, 3 >>
  /\ flocals.response.invoked
  /\ flocals.response.code = 503

\* ---------------------------------------------------------------- C40
\* C40: the names a ModelSet exposes through keys(), items(), values() and
\* membership are exactly the names of the components it was constructed
\* with or that were assigned to it; constructing, freezing and copying add
\* no other name. (Violated: __init__ stores the private flag in __dict__
\* under its mangled name, and keys() and the others read __dict__.)
C40_KeysAreComponentNames ==
  \A o \in DOMAIN heap :
    /\ ModelSet_keys(heap[o]) = DOMAIN heap[o].dict
    /\ DOMAIN ModelSet_dict(heap[o]) = DOMAIN heap[o].dict

====
